---- MODULE Spec2Model ----
(***************************************************************************)
(* Model of the planner's persistence core:                                *)
(*   - PlanService (services/planService.ts) over the IndexedDB plan store *)
(*     and sync queue (IndexedDBService),                                  *)
(*   - IndexedDBEnhancementService (services/enhancementService.ts): the   *)
(*     enhancement store, the change history and rollback.                 *)
(* Every service call is one action: the calls of a behaviour are awaited  *)
(* one after the other.  A storage request that fails is an input of the   *)
(* action (the parameter f).  The drain of the sync queue runs beside the  *)
(* calls: the 'online' listener reads the queue and each turn of the loop  *)
(* of processSyncQueue is a step of its own.                               *)
(* Beside the two services: the connection IndexedDBService.init opens,    *)
(* the PlanProvider's reducer and the getters of usePlans                  *)
(* (hooks/usePlanContext.tsx), the retry decorator AIServiceWithRetry, and *)
(* plan mutations issued without awaiting the one before, which run from   *)
(* one await to the next.                                                  *)
(***************************************************************************)
EXTENDS Integers, Sequences, FiniteSets, TLC

VARIABLES
    plans,          \* 'plans' object store: plan id -> Plan
    syncQueue,      \* 'syncQueue' object store, in insertion order
    isOnline,       \* PlanService.isOnline
    succeeded,      \* history variable: plan id -> mutation calls on it that returned
    enhancements,   \* 'enhancements' object store: enhancement id -> Enhancement
    history,        \* 'changeHistory' object store: entry id -> ChangeHistoryEntry
    nextUuid,       \* number of crypto.randomUUID() values drawn and stored so far
    now,            \* the clock read by new Date(), in days
    lastCall,       \* the last service call: its arguments and what it returned or raised
    eventListeners, \* PlanService.eventListeners: event name -> its listener
    emitted,        \* history variable: the listener invocations of the last service call
    draining,       \* ids of the items the running processSyncQueue has still to remove
    indexedDBService, \* IndexedDBService: db, initPromise and the indexedDB.open calls made
    initCalls,      \* the callers of init(): what each waits for or has got
    planState,      \* PlanProvider: the state of its reducer (plans, error)
    providerCall,   \* PlanProvider: its updatePlan in flight, and the plans before it
    returned,       \* what the last getter called returned
    retry,          \* AIServiceWithRetry.withRetry: maxRetries and the run of the loop
    inflight,       \* the mutations issued without awaiting: where each one stands
    log             \* history variable: the writes and the publications, in order

vars == <<plans, syncQueue, isOnline, succeeded, enhancements, history, nextUuid, now, lastCall,
          eventListeners, emitted, draining, indexedDBService, initCalls,
          planState, providerCall, returned, retry, inflight, log>>

\* the state of the parts beside the plan and enhancement services
others == <<indexedDBService, initCalls, providerCall, returned, retry, inflight, log>>

\* the state of the plan and enhancement services
services == <<plans, syncQueue, isOnline, succeeded, enhancements, history, nextUuid, now,
              lastCall, eventListeners, emitted, draining>>

---------------------------------------------------------------------------
(* Bounds of the model *)

MaxUuid == 3        \* randomUUID() draws per behaviour
MaxPlans == 1       \* plans in the store at once
MaxDraws == 3       \* randomUUID() draws per behaviour beyond the ids of the stored plans
MaxEdits == 1       \* "(edited by user)" markers on one change
MaxVersion == 3     \* plan versions
MaxNow == 31            \* days the clock runs for
MaxRollbackDraws == 6   \* the same, for a call that rolls a whole enhancement back

---------------------------------------------------------------------------
(* What the caller sees of a call *)

\* op(target, addressed) under the injected storage fault: the promise's outcome
\* ("returned" or "raised" with error) and, for a BatchOperationResult, its two lists
Call(op, target, addressed, fault, outcome, error, successful, failed) ==
    [ op |-> op, target |-> target, addressed |-> addressed, fault |-> fault,
      outcome |-> outcome, error |-> error, successful |-> successful, failed |-> failed ]

PlanCall(op, planId, outcome, error, fault) ==
    Call(op, planId, <<>>, <<fault>>, outcome, error, <<>>, <<>>)

---------------------------------------------------------------------------
(* JavaScript object helpers *)

\* {...a, ...b}: the fields of a, overridden and extended by those of b
Spread(a, b) ==
    [k \in (DOMAIN a) \cup (DOMAIN b) |-> IF k \in DOMAIN b THEN b[k] ELSE a[k]]

\* an object with no own properties (an omitted optional argument spreads the same way)
EmptyObj == [k \in {} |-> 0]

\* crypto.randomUUID(): the n-th value drawn that was stored; all values distinct
\* (a value drawn by a call that fails before storing it is never seen again)
Uuid(n) == <<"uuid", n>>

\* Array.prototype.filter
RECURSIVE SelectItems(_, _)
SelectItems(items, drop) ==
    IF items = <<>> THEN <<>>
    ELSE IF Head(items).id = drop THEN SelectItems(Tail(items), drop)
         ELSE <<Head(items)>> \o SelectItems(Tail(items), drop)

\* Array.prototype.findIndex (0-based, -1 when absent)
RECURSIVE FindIndexFrom(_, _, _)
FindIndexFrom(items, itemId, i) ==
    IF i > Len(items) THEN -1
    ELSE IF items[i].id = itemId THEN i - 1
         ELSE FindIndexFrom(items, itemId, i + 1)

findIndex(items, itemId) == FindIndexFrom(items, itemId, 1)

---------------------------------------------------------------------------
(* PlanService: the documents it builds *)

\* caller-supplied items of a createPlan / updatePlan structuredData
CallerItems ==
    { <<[id |-> <<"item", 1>>, status |-> "pending", order |-> 1]>> }

\* Partial<StructuredPlanData> inputs
PartialStructuredData ==
    {EmptyObj} \cup {[items |-> its] : its \in CallerItems}

\* Omit<PlanItem, 'id' | 'order'> inputs of addPlanItem
NewItemInputs == {[status |-> "pending"]}

\* Partial<PlanItem> inputs of updatePlanItem
ItemPatches == {[status |-> "completed"], [order |-> 7]}

\* createPlan lines 107-126
NewPlan(id, input) ==
    [ id |-> id,
      userId |-> input.userId,
      title |-> input.title,
      content |-> input.content,
      structuredData |->
          Spread([type |-> "custom", items |-> <<>>, tags |-> {}], input.structuredData),
      metadata |-> [source |-> "user_input", language |-> "en", complexity |-> "simple"],
      version |-> 1,
      createdAt |-> now,
      updatedAt |-> now ]

\* updatePlan with the structured payload of the input taken whole
UpdatedPlan_ReplacesPayload(existingPlan, input) ==
    Spread(Spread(existingPlan, input),
           [ version |-> existingPlan.version + 1,
             updatedAt |-> now ])

\* updatePlan lines 161-170
UpdatedPlan(existingPlan, input) ==
    Spread(Spread(existingPlan, [k \in (DOMAIN input) \ {"structuredData"} |-> input[k]]),
           [ structuredData |->
                 Spread(existingPlan.structuredData,
                        IF "structuredData" \in DOMAIN input
                        THEN input.structuredData ELSE EmptyObj),
             version |-> existingPlan.version + 1,
             updatedAt |-> now ])

WithItems(plan, items) ==
    [plan EXCEPT !.structuredData = Spread(plan.structuredData, [items |-> items]),
                 !.version = plan.version + 1,
                 !.updatedAt = now]

\* addPlanItem lines 228-242
PlanWithNewItem(plan, item, id) ==
    WithItems(plan,
        Append(plan.structuredData.items,
               Spread(item, [id |-> id, order |-> Len(plan.structuredData.items)])))

\* updatePlanItem lines 281-295 (itemIndex is 0-based)
PlanWithPatchedItem(plan, itemIndex, updates) ==
    WithItems(plan,
        [plan.structuredData.items EXCEPT
            ![itemIndex + 1] = Spread(plan.structuredData.items[itemIndex + 1], updates)])

\* removePlanItem lines 329-334: filter, then item.order = index
Reordered(items) == [i \in 1..Len(items) |-> [items[i] EXCEPT !.order = i - 1]]

\* removePlanItem lines 329-344
PlanWithoutItem(plan, itemId) ==
    WithItems(plan, Reordered(SelectItems(plan.structuredData.items, itemId)))

---------------------------------------------------------------------------
(* IndexedDBService and the common tail of PlanService's write operations *)

\* addToSyncQueue lines 812-835 of the store: a fresh id, the timestamp, retryCount 0
SyncItem(id, operation, planId, data) ==
    [ id |-> id, operation |-> operation, planId |-> planId, data |-> data,
      timestamp |-> now, retryCount |-> 0 ]

\* addToSyncQueue with a store keyed by plan: the item replaces the plan's earlier items
addToSyncQueue_ReplacesSamePlan(q, item) ==
    Append(SelectSeq(q, LAMBDA other : other.planId # item.planId), item)

\* addToSyncQueue lines 826-828: store.put under the fresh id
addToSyncQueue(q, item) == Append(q, item)

\* where a storage request of a write operation fails
PlanFailures == {"none", "getPlan", "savePlan", "addToSyncQueue"}

\* the plan ids a caller may name: those in the store and one that is not
KnownPlanIds == (DOMAIN plans) \cup {<<"uuid", 0>>}

\* emit lines 64-69: the listener invocations emit(event, payload) makes
emit(event, payload) ==
    IF event \in DOMAIN eventListeners
    THEN << <<event, payload, eventListeners[event].name>> >>
    ELSE <<>>

\* the listener emit(event, ...) invokes throws
Throws(event) == event \in DOMAIN eventListeners /\ eventListeners[event].does = "throws"

---------------------------------------------------------------------------
(* PlanProvider (hooks/usePlanContext.tsx): the reducer and the handlers it registers *)

\* initialState lines 53-63: the fields the modelled operations read or write
initialState == [plans |-> <<>>, error |-> "null"]

NoProviderCall == [op |-> "none"]

\* Array.prototype.map over the cached plans
MapPlans(cached, planId, f(_)) ==
    [i \in 1..Len(cached) |-> IF cached[i].id = planId THEN f(cached[i]) ELSE cached[i]]

\* planReducer lines 66-131
planReducer(state, action) ==
    CASE action.type = "SET_ERROR" -> [state EXCEPT !.error = action.payload]
      [] action.type = "SET_PLANS" -> [plans |-> action.payload, error |-> "null"]
      [] action.type = "ADD_PLAN" ->
            [plans |-> <<action.payload>> \o state.plans, error |-> "null"]
      [] action.type = "UPDATE_PLAN" ->
            [plans |-> MapPlans(state.plans, action.payload.id, LAMBDA plan : action.payload),
             error |-> "null"]
      [] action.type = "REMOVE_PLAN" ->
            [plans |-> SelectSeq(state.plans, LAMBDA plan : plan.id # action.payload),
             error |-> "null"]
      [] action.type = "OPTIMISTIC_UPDATE" ->
            [state EXCEPT !.plans = MapPlans(state.plans, action.payload.planId,
                                       LAMBDA plan : Spread(plan, action.payload.updates))]
      [] action.type = "REVERT_OPTIMISTIC" -> state
      [] OTHER -> state

\* getPlans lines 724-744: the arrays index.getAll(userId) followed by the sort on
\* updatedAt, newest first, can give; plans of equal updatedAt come in any order
getPlans(userId) ==
    LET ids == {p \in DOMAIN plans : plans[p].userId = userId}
        n == Cardinality(ids)
    IN  {[i \in 1..n |-> plans[ord[i]]] :
            ord \in {o \in [1..n -> ids] :
                        /\ \A i, j \in 1..n : i # j => o[i] # o[j]
                        /\ \A i, j \in 1..n :
                              i < j => plans[o[i]].updatedAt >= plans[o[j]].updatedAt}}

\* the handlers of lines 147-165: the states one listener invocation may leave.  The
\* payload of a committed event is the document just written.
Handle(state, invocation) ==
    LET event == invocation[1]
        payload == invocation[2]
    IN  IF eventListeners[event].does # "dispatches" THEN {state}
        ELSE CASE event = "planCreated" ->
                    {planReducer(state, [type |-> "ADD_PLAN", payload |-> plans'[payload]])}
               [] event = "planUpdated" ->
                    {planReducer(state, [type |-> "UPDATE_PLAN", payload |-> plans'[payload]])}
               [] event = "planDeleted" ->
                    {planReducer(state, [type |-> "REMOVE_PLAN", payload |-> payload])}
               [] event = "plansLoaded" ->
                    {planReducer(state, [type |-> "SET_PLANS", payload |-> loaded]) :
                        loaded \in getPlans(payload)}
               [] event = "error" ->
                    {planReducer(state, [type |-> "SET_ERROR", payload |-> payload])}

RECURSIVE Handling(_, _)
Handling(state, made) ==
    IF made = <<>> THEN {state}
    ELSE UNION {Handling(next, Tail(made)) : next \in Handle(state, Head(made))}

\* the listener invocations of a call reach the reducer in the order they are made
Delivers(made) == planState' \in Handling(planState, made)

\* the catch block of an operation: emit('error', err); throw err -- after the listener
\* invocations the try block made
Rejected(op, planId, error, f, made) ==
    /\ emitted' = made \o emit("error", error)
    /\ Delivers(made \o emit("error", error))
    /\ lastCall' = PlanCall(op, planId, "raised",
                            IF Throws("error") THEN "listener threw" ELSE error, f)

\* the end of the try block: emit(event, payload); return -- or, when the listener throws,
\* the catch block
Completed(op, planId, event, f) ==
    IF Throws(event)
    THEN Rejected(op, planId, "listener threw", f, emit(event, planId))
    ELSE /\ emitted' = emit(event, planId)
         /\ Delivers(emit(event, planId))
         /\ lastCall' = PlanCall(op, planId, "returned", "none", f)

\* savePlan(updatedPlan); if offline addToSyncQueue; emit; return -- or the catch block.
\* uuids is the number of randomUUID() values drawn before the queue item's.
CommitPlan(op, operation, doc, uuids, f) ==
    LET event == IF operation = "create" THEN "planCreated" ELSE "planUpdated"
    IN  /\ f # "getPlan"
        /\ doc.version <= MaxVersion
        /\ f = "addToSyncQueue" => ~isOnline
        /\ nextUuid + uuids + (IF isOnline THEN 0 ELSE 1) <= MaxUuid
        /\ IF f = "savePlan"
           THEN /\ UNCHANGED <<plans, syncQueue, succeeded, nextUuid>>
                /\ Rejected(op, doc.id, "Failed to save plan to IndexedDB", f, <<>>)
           ELSE /\ plans' = [k \in (DOMAIN plans) \cup {doc.id} |->
                                IF k = doc.id THEN doc ELSE plans[k]]
                /\ succeeded' = [k \in (DOMAIN plans) \cup {doc.id} |->
                                IF k # doc.id THEN succeeded[k]
                                ELSE IF op = "createPlan" THEN 0
                                ELSE IF (~isOnline /\ f = "addToSyncQueue") \/ Throws(event)
                                THEN succeeded[k]
                                ELSE succeeded[k] + 1]
                /\ IF isOnline
                   THEN /\ UNCHANGED syncQueue
                        /\ nextUuid' = nextUuid + uuids
                        /\ Completed(op, doc.id, event, f)
                   ELSE IF f = "addToSyncQueue"
                   THEN /\ UNCHANGED syncQueue
                        /\ nextUuid' = nextUuid + uuids
                        /\ Rejected(op, doc.id, "Failed to add item to sync queue", f, <<>>)
                   ELSE /\ syncQueue' = addToSyncQueue(syncQueue,
                                SyncItem(Uuid(nextUuid + uuids + 1), operation, doc.id, doc))
                        /\ nextUuid' = nextUuid + uuids + 1
                        /\ Completed(op, doc.id, event, f)

\* a read that fails, or a not-found condition: nothing is written
RejectPlanCall(op, planId, error, f) ==
    /\ UNCHANGED <<plans, syncQueue, succeeded, nextUuid>>
    /\ Rejected(op, planId, error, f, <<>>)

---------------------------------------------------------------------------
(* The caller: one call at a time, each awaited before the next is issued *)

NoCall == Call("none", <<"uuid", 0>>, <<>>, <<>>, "returned", "none", <<>>, <<>>)

Idle == lastCall.op = "none"

\* the caller takes the settled promise's result
Await ==
    /\ ~Idle
    /\ lastCall' = NoCall
    /\ emitted' = <<>>
    /\ UNCHANGED <<others, planState, plans, syncQueue, isOnline, succeeded, enhancements, history, nextUuid, now,
                   eventListeners, draining>>

---------------------------------------------------------------------------
(* PlanService operations *)

createPlan(input, f) ==
    /\ Idle
    /\ f # "getPlan"
    /\ nextUuid < MaxUuid
    /\ Cardinality(DOMAIN plans) < MaxPlans
    /\ CommitPlan("createPlan", "create", NewPlan(Uuid(nextUuid + 1), input), 1, f)
    /\ UNCHANGED <<others, isOnline, enhancements, history, now, eventListeners, draining>>

updatePlan(input, f) ==
    /\ Idle
    /\ IF f = "getPlan"
       THEN RejectPlanCall("updatePlan", input.id, "Failed to get plan from IndexedDB", f)
       ELSE IF input.id \notin DOMAIN plans
       THEN RejectPlanCall("updatePlan", input.id, "Plan not found", f)
       ELSE CommitPlan("updatePlan", "update", UpdatedPlan(plans[input.id], input), 0, f)
    /\ UNCHANGED <<others, isOnline, enhancements, history, now, eventListeners, draining>>

addPlanItem(planId, item, f) ==
    /\ Idle
    /\ IF f = "getPlan"
       THEN RejectPlanCall("addPlanItem", planId, "Failed to get plan from IndexedDB", f)
       ELSE IF planId \notin DOMAIN plans
       THEN RejectPlanCall("addPlanItem", planId, "Plan not found", f)
       ELSE /\ nextUuid < MaxUuid
            /\ CommitPlan("addPlanItem", "update",
                          PlanWithNewItem(plans[planId], item, Uuid(nextUuid + 1)), 1, f)
    /\ UNCHANGED <<others, isOnline, enhancements, history, now, eventListeners, draining>>

updatePlanItem(planId, itemId, updates, f) ==
    /\ Idle
    /\ IF f = "getPlan"
       THEN RejectPlanCall("updatePlanItem", planId, "Failed to get plan from IndexedDB", f)
       ELSE IF planId \notin DOMAIN plans
       THEN RejectPlanCall("updatePlanItem", planId, "Plan not found", f)
       ELSE IF findIndex(plans[planId].structuredData.items, itemId) = -1
       THEN RejectPlanCall("updatePlanItem", planId, "Plan item not found", f)
       ELSE CommitPlan("updatePlanItem", "update",
                PlanWithPatchedItem(plans[planId],
                    findIndex(plans[planId].structuredData.items, itemId), updates), 0, f)
    /\ UNCHANGED <<others, isOnline, enhancements, history, now, eventListeners, draining>>

removePlanItem(planId, itemId, f) ==
    /\ Idle
    /\ IF f = "getPlan"
       THEN RejectPlanCall("removePlanItem", planId, "Failed to get plan from IndexedDB", f)
       ELSE IF planId \notin DOMAIN plans
       THEN RejectPlanCall("removePlanItem", planId, "Plan not found", f)
       ELSE CommitPlan("removePlanItem", "update",
                       PlanWithoutItem(plans[planId], itemId), 0, f)
    /\ UNCHANGED <<others, isOnline, enhancements, history, now, eventListeners, draining>>

\* deletePlan lines 195-214: store.delete succeeds whether or not the key exists
deletePlan(planId, f) ==
    /\ Idle
    /\ f \in {"none", "savePlan", "addToSyncQueue"}
    /\ f = "addToSyncQueue" => ~isOnline
    /\ ~isOnline => nextUuid < MaxUuid
    /\ IF f = "savePlan"
       THEN /\ UNCHANGED <<plans, syncQueue, succeeded, nextUuid>>
            /\ Rejected("deletePlan", planId, "Failed to delete plan from IndexedDB", f, <<>>)
       ELSE /\ plans' = [k \in (DOMAIN plans) \ {planId} |-> plans[k]]
            /\ succeeded' = [k \in (DOMAIN plans) \ {planId} |-> succeeded[k]]
            /\ IF isOnline
               THEN /\ UNCHANGED <<syncQueue, nextUuid>>
                    /\ Completed("deletePlan", planId, "planDeleted", f)
               ELSE IF f = "addToSyncQueue"
               THEN /\ UNCHANGED <<syncQueue, nextUuid>>
                    /\ Rejected("deletePlan", planId, "Failed to add item to sync queue", f, <<>>)
               ELSE /\ syncQueue' = addToSyncQueue(syncQueue,
                            SyncItem(Uuid(nextUuid + 1), "delete", planId, "undefined"))
                    /\ nextUuid' = nextUuid + 1
                    /\ Completed("deletePlan", planId, "planDeleted", f)
    /\ UNCHANGED <<others, isOnline, enhancements, history, now, eventListeners, draining>>

\* loadPlans lines 74-85; getPlans of the store reads every plan
loadPlans(userId, f) ==
    /\ Idle
    /\ f \in {"none", "getPlans"}
    /\ IF f = "getPlans"
       THEN Rejected("loadPlans", userId, "Failed to get plans from IndexedDB", f, <<>>)
       ELSE Completed("loadPlans", userId, "plansLoaded", f)
    /\ UNCHANGED <<others, plans, syncQueue, isOnline, succeeded, enhancements, history, nextUuid, now,
                   eventListeners, draining>>

\* getPlan lines 90-99: no event when the read succeeds, found or not
getPlan(planId, f) ==
    /\ Idle
    /\ f \in {"none", "getPlan"}
    /\ IF f = "getPlan"
       THEN Rejected("getPlan", planId, "Failed to get plan from IndexedDB", f, <<>>)
       ELSE /\ emitted' = <<>>
            /\ Delivers(<<>>)
            /\ lastCall' = PlanCall("getPlan", planId, "returned", "none", f)
    /\ UNCHANGED <<others, plans, syncQueue, isOnline, succeeded, enhancements, history, nextUuid, now,
                   eventListeners, draining>>

\* a listener function: its identity, and whether it returns or throws when invoked
Listener(name, does) == [name |-> name, does |-> does]

\* on with a single slot for all events: the listener replaces every registered one
on_SingleSlot(event, listener) ==
    /\ Idle
    /\ eventListeners' = [e \in {event} |-> listener]
    /\ UNCHANGED <<others, planState, plans, syncQueue, isOnline, succeeded, enhancements, history, nextUuid, now,
                   lastCall, emitted, draining>>

\* on lines 50-52: the listener replaces the one registered for the event
on(event, listener) ==
    /\ Idle
    /\ eventListeners' = [e \in (DOMAIN eventListeners) \cup {event} |->
                             IF e = event THEN listener ELSE eventListeners[e]]
    /\ UNCHANGED <<others, planState, plans, syncQueue, isOnline, succeeded, enhancements, history, nextUuid, now,
                   lastCall, emitted, draining>>

\* off lines 57-59
off(event) ==
    /\ Idle
    /\ eventListeners' = [e \in (DOMAIN eventListeners) \ {event} |-> eventListeners[e]]
    /\ UNCHANGED <<others, planState, plans, syncQueue, isOnline, succeeded, enhancements, history, nextUuid, now,
                   lastCall, emitted, draining>>

\* emit lines 64-69 called by itself, as the tests of the event handling do: the listener
\* of the event is invoked if there is one, and what it throws reaches the caller
Publish(event, payload) ==
    /\ Idle
    /\ emitted' = emit(event, payload)
    /\ Delivers(emit(event, payload))
    /\ lastCall' = IF Throws(event)
                   THEN PlanCall("emit", event, "raised", "listener threw", "none")
                   ELSE PlanCall("emit", event, "returned", "none", "none")
    /\ UNCHANGED <<others, plans, syncQueue, isOnline, succeeded, enhancements, history, nextUuid, now,
                   eventListeners, draining>>

\* the 'offline' listener, constructor lines 42-44
GoOffline ==
    /\ Idle
    /\ isOnline
    /\ isOnline' = FALSE
    /\ UNCHANGED <<others, planState, plans, syncQueue, succeeded, enhancements, history, nextUuid, now, lastCall,
                   eventListeners, emitted, draining>>

\* the orders store.getAll() followed by the sort of line 851 can give the items of q:
\* getAll returns them in key order, the keys are random UUIDs, and the sort is stable, so
\* items of equal timestamp come in any order
QueueOrders(q) ==
    {ord \in [1..Len(q) -> 1..Len(q)] :
        /\ \A i, j \in 1..Len(q) : i # j => ord[i] # ord[j]
        /\ \A i, j \in 1..Len(q) : i < j => q[ord[i]].timestamp <= q[ord[j]].timestamp}

\* getSyncQueue lines 840-859: the arrays it may resolve to
getSyncQueue(q) == {[i \in 1..Len(q) |-> q[ord[i]]] : ord \in QueueOrders(q)}

\* removeFromSyncQueue whose delete request leaves the item in the store
removeFromSyncQueue_Keeps(q, itemId) == q

\* removeFromSyncQueue lines 864-880: store.delete(itemId)
removeFromSyncQueue(q, itemId) == SelectSeq(q, LAMBDA item : item.id # itemId)

\* the 'online' listener, constructor lines 37-40, and processSyncQueue up to its loop,
\* lines 369-373: the queue is read in the task of the event; a read that fails ends the run
GoOnline(getFails) ==
    /\ Idle
    /\ ~isOnline
    /\ draining = <<>>
    /\ isOnline' = TRUE
    /\ IF getFails
       THEN draining' = <<>>
       ELSE \E items \in getSyncQueue(syncQueue) :
               draining' = [i \in 1..Len(items) |-> items[i].id]
    /\ UNCHANGED <<others, planState, plans, syncQueue, succeeded, enhancements, history, nextUuid, now, lastCall,
                   eventListeners, emitted>>

\* one turn of the loop of processSyncQueue, lines 374-382: the next item is removed, or
\* its removal fails and the error is logged
RemoveNext(fails) ==
    /\ draining # <<>>
    /\ draining' = Tail(draining)
    /\ syncQueue' = IF fails THEN syncQueue
                    ELSE removeFromSyncQueue(syncQueue, Head(draining))
    /\ UNCHANGED <<others, planState, plans, isOnline, succeeded, enhancements, history, nextUuid, now, lastCall,
                   eventListeners, emitted>>

\* the summary getSyncQueueStatus gives of a queue item, lines 398-404
Summary(item) ==
    [ id |-> item.id, operation |-> item.operation, planId |-> item.planId,
      timestamp |-> item.timestamp, retryCount |-> item.retryCount ]

\* getSyncQueueStatus that summarises the first item only
getSyncQueueStatus_FirstOnly(q, f) ==
    IF f = "getSyncQueue" THEN {[pending |-> 0, items |-> <<>>]}
    ELSE {[pending |-> Len(items), items |-> [i \in 1..(IF items = <<>> THEN 0 ELSE 1) |->
                                                 Summary(items[i])]] :
             items \in getSyncQueue(q)}

\* getSyncQueueStatus lines 392-409: the values it may resolve to; it never rejects
getSyncQueueStatus(q, f) ==
    IF f = "getSyncQueue" THEN {[pending |-> 0, items |-> <<>>]}
    ELSE {[pending |-> Len(items), items |-> [i \in 1..Len(items) |-> Summary(items[i])]] :
             items \in getSyncQueue(q)}

GetSyncQueueStatus(f) ==
    /\ Idle
    /\ f \in {"none", "getSyncQueue"}
    /\ \E status \in getSyncQueueStatus(syncQueue, f) :
          returned' = [op |-> "getSyncQueueStatus", fault |-> f, value |-> status]
    /\ UNCHANGED <<services, indexedDBService, initCalls, planState, providerCall, retry,
                   inflight, log>>

---------------------------------------------------------------------------
(* IndexedDBEnhancementService: ids, values and the documents it builds *)

\* an optional Date field: <<>> when undefined, <<t>> when set
NoDate == <<>>
Date(t) == <<t>>

\* `${enhancementId}-change-${digits}`: the text before "-change-" and the run of decimal
\* digits that ends the string (empty when the string does not end in -change-<digits>)
ChangeIdText(prefix, digits) == [prefix |-> prefix, digits |-> digits]

\* the decimal digits of a non-negative integer, as template literals print it
RECURSIVE ToDigits(_)
ToDigits(n) == IF n < 10 THEN <<n>> ELSE ToDigits(n \div 10) \o <<n % 10>>

\* parseInt(digits, 10)
RECURSIVE parseInt(_)
parseInt(digits) ==
    IF Len(digits) = 1 THEN digits[1]
    ELSE 10 * parseInt(SubSeq(digits, 1, Len(digits) - 1)) + digits[Len(digits)]

\* lines 202-204: `${enhancementId}-change-${index}`
ChangeIdOf(enhancementId, index) == ChangeIdText(enhancementId, ToDigits(index))

\* a variant of extractChangeIndex that takes the digits as a 1-based position
extractChangeIndex_OneBased(changeId) ==
    IF changeId.digits = <<>> THEN -1 ELSE parseInt(changeId.digits) - 1

\* extractChangeIndex lines 601-604: changeId.match(/-change-(\d+)$/)
extractChangeIndex(changeId) ==
    IF changeId.digits = <<>> THEN -1 ELSE parseInt(changeId.digits)

\* enhancement.changes[changeIndex] is defined
HasChange(enhancement, changeIndex) ==
    changeIndex >= 0 /\ changeIndex < Len(enhancement.changes)

Undefined == "undefined"

\* the optional argument changeIds?: string[]
NoIds == [given |-> FALSE]
Ids(list) == [given |-> TRUE, list |-> list]

\* lines 200-204: changeIds || enhancement.changes.map(...)  (an empty array is truthy)
ChangesAddressed(enhancement, changeIds) ==
    IF changeIds.given
    THEN changeIds.list
    ELSE [i \in 1..Len(enhancement.changes) |-> ChangeIdOf(enhancement.id, i - 1)]

\* lines 223-236
HistoryEntry(id, enhancement, changeId, change, userId) ==
    [ id |-> id,
      enhancementId |-> enhancement.id,
      planId |-> enhancement.planId,
      changeId |-> changeId,
      appliedAt |-> now,
      appliedBy |-> userId,
      originalValue |-> change.oldValue,
      appliedValue |-> change.newValue,
      rollbackData |-> [operation |-> change.operation, target |-> change.target] ]

\* lines 252-256
ApprovedEnhancement(enhancement) ==
    Spread(enhancement, [status |-> "approved", appliedAt |-> Date(now)])

\* a variant of the rejected document that keeps none of the rejected changes
RejectedEnhancement_DropsChanges(enhancement, feedback) ==
    Spread(enhancement,
           [status |-> "rejected", rejectedAt |-> Date(now), userFeedback |-> feedback,
            changes |-> <<>>])

\* the rejected enhancement without the feedback of the call
RejectedEnhancement_NoFeedback(enhancement, feedback) ==
    Spread(enhancement, [status |-> "rejected", rejectedAt |-> Date(now)])

\* lines 297-302
RejectedEnhancement(enhancement, feedback) ==
    Spread(enhancement,
           [status |-> "rejected", rejectedAt |-> Date(now), userFeedback |-> feedback])

\* editChange lines 344-354; description counts its "(edited by user)" markers
EditedEnhancement(enhancement, changeIndex, newValue) ==
    Spread(enhancement,
        [changes |-> [enhancement.changes EXCEPT ![changeIndex + 1] =
            Spread(enhancement.changes[changeIndex + 1],
                   [newValue |-> newValue,
                    description |-> enhancement.changes[changeIndex + 1].description + 1])]])

\* the rollback enhancement with the entry's values as they were applied
RollbackEnhancementDoc_NotSwapped(id, historyEntry) ==
    [ id |-> id,
      planId |-> historyEntry.planId,
      type |-> "optimization",
      changes |-> << [ operation |-> "modify",
                       target |-> IF "target" \in DOMAIN historyEntry.rollbackData
                                  THEN historyEntry.rollbackData.target ELSE "unknown",
                       oldValue |-> historyEntry.originalValue,
                       newValue |-> historyEntry.appliedValue,
                       description |-> 0,
                       confidence |-> 10 ] >>,
      confidence |-> 10,
      status |-> "approved",
      createdAt |-> now,
      appliedAt |-> Date(now) ]

\* rollbackChange lines 452-471
RollbackEnhancementDoc(id, historyEntry) ==
    [ id |-> id,
      planId |-> historyEntry.planId,
      type |-> "optimization",
      changes |-> << [ operation |-> "modify",
                       target |-> IF "target" \in DOMAIN historyEntry.rollbackData
                                  THEN historyEntry.rollbackData.target ELSE "unknown",
                       oldValue |-> historyEntry.appliedValue,
                       newValue |-> historyEntry.originalValue,
                       description |-> 0,
                       confidence |-> 10 ] >>,
      confidence |-> 10,
      status |-> "approved",
      createdAt |-> now,
      appliedAt |-> Date(now) ]

\* rollbackChange lines 476-489
RollbackHistoryEntry(id, rollbackEnhancementId, historyEntry, userId) ==
    [ id |-> id,
      enhancementId |-> rollbackEnhancementId,
      planId |-> historyEntry.planId,
      changeId |-> ChangeIdOf(rollbackEnhancementId, 0),
      appliedAt |-> now,
      appliedBy |-> userId,
      originalValue |-> historyEntry.appliedValue,
      appliedValue |-> historyEntry.originalValue,
      rollbackData |-> [isRollback |-> TRUE, originalHistoryEntryId |-> historyEntry.id] ]

\* store.put(value): upsert under value.id
Put(store, value) ==
    [k \in (DOMAIN store) \cup {value.id} |-> IF k = value.id THEN value ELSE store[k]]

\* store.delete(key)
Delete(store, key) == [k \in (DOMAIN store) \ {key} |-> store[k]]

\* a variant of saveChangeHistory that puts the first entry only
saveChangeHistory_FirstOnly(store, entries) ==
    IF entries = <<>> THEN store ELSE Put(store, Head(entries))

\* saveChangeHistory lines 572-599: one put per entry, in one transaction
RECURSIVE saveChangeHistory(_, _)
saveChangeHistory(store, entries) ==
    IF entries = <<>> THEN store
    ELSE saveChangeHistory(Put(store, Head(entries)), Tail(entries))

---------------------------------------------------------------------------
(* IndexedDBEnhancementService operations as functions of the stores.          *)
(* st = [enh, hist, uuid] is the enhancement store, the history store and the   *)
(* number of randomUUID() draws; the result adds what the caller gets.          *)

\* the storage request that fails if the call issues it
EnhFaults == {"none", "read", "saveChangeHistory", "saveEnhancement"}

Outcome(st, outcome, error, addressed, successful, failed) ==
    [ enh |-> st.enh, hist |-> st.hist, uuid |-> st.uuid, outcome |-> outcome,
      error |-> error, addressed |-> addressed, successful |-> successful,
      failed |-> failed ]

\* approveChanges lines 209-246: the per-change loop over changesToApprove[i..]
RECURSIVE ApproveLoop(_, _, _, _, _)
ApproveLoop(enhancement, ids, i, uuid, userId) ==
    IF i > Len(ids)
    THEN [entries |-> <<>>, successful |-> <<>>, failed |-> <<>>, uuid |-> uuid]
    ELSE IF ~HasChange(enhancement, extractChangeIndex(ids[i]))
    THEN LET rest == ApproveLoop(enhancement, ids, i + 1, uuid, userId)
         IN  [rest EXCEPT !.failed = <<[id |-> ids[i], error |-> "Change not found"]>> \o @]
    ELSE LET rest == ApproveLoop(enhancement, ids, i + 1, uuid + 1, userId)
             change == enhancement.changes[extractChangeIndex(ids[i]) + 1]
         IN  [rest EXCEPT
                !.entries = <<HistoryEntry(Uuid(uuid + 1), enhancement, ids[i], change,
                                            userId)>> \o @,
                !.successful = <<ids[i]>> \o @]

\* approveChanges lines 183-271.  The catch block reads changesToApprove, a const of
\* the try block that is out of scope there: evaluating it raises a ReferenceError,
\* which is what the caller gets when a write fails.  saveChangeHistory issues no
\* request, and so cannot fail, when there is no entry to save (lines 583-586).
approveChanges(st, enhancementId, changeIds, userId, f) ==
    IF f = "read"
    THEN Outcome(st, "raised", "storage error", <<>>, <<>>, <<>>)
    ELSE IF enhancementId \notin DOMAIN st.enh
    THEN Outcome(st, "raised", "Enhancement not found", <<>>, <<>>, <<>>)
    ELSE LET enhancement == st.enh[enhancementId]
             ids == ChangesAddressed(enhancement, changeIds)
             loop == ApproveLoop(enhancement, ids, 1, st.uuid, userId)
             saved == [st EXCEPT !.uuid = loop.uuid,
                                 !.hist = saveChangeHistory(st.hist, loop.entries)]
         IN  IF f = "saveChangeHistory" /\ loop.entries # <<>>
             THEN Outcome(st, "raised", "ReferenceError", ids, <<>>, <<>>)
             ELSE IF f = "saveEnhancement"
             THEN Outcome(saved, "raised", "ReferenceError", ids, <<>>, <<>>)
             ELSE Outcome([saved EXCEPT
                              !.enh = Put(st.enh, ApprovedEnhancement(enhancement))],
                          "returned", "none", ids, loop.successful, loop.failed)

\* rejectChanges lines 273-325
rejectChanges(st, enhancementId, changeIds, feedback, f) ==
    IF f = "read"
    THEN Outcome(st, "raised", "storage error", <<>>, <<>>, <<>>)
    ELSE IF enhancementId \notin DOMAIN st.enh
    THEN Outcome(st, "raised", "Enhancement not found", <<>>, <<>>, <<>>)
    ELSE LET enhancement == st.enh[enhancementId]
             ids == ChangesAddressed(enhancement, changeIds)
         IN  IF f = "saveEnhancement"
             THEN Outcome(st, "returned", "none", ids, <<>>,
                          [i \in 1..Len(ids) |-> [id |-> ids[i], error |-> "storage error"]])
             ELSE Outcome([st EXCEPT
                              !.enh = Put(st.enh, RejectedEnhancement(enhancement, feedback))],
                          "returned", "none", ids, ids, <<>>)

\* editChange lines 327-357
editChange(st, enhancementId, changeId, newValue, f) ==
    IF f = "read"
    THEN Outcome(st, "raised", "storage error", <<changeId>>, <<>>, <<>>)
    ELSE IF enhancementId \notin DOMAIN st.enh
    THEN Outcome(st, "raised", "Enhancement not found", <<changeId>>, <<>>, <<>>)
    ELSE IF ~HasChange(st.enh[enhancementId], extractChangeIndex(changeId))
    THEN Outcome(st, "raised", "Change not found", <<changeId>>, <<>>, <<>>)
    ELSE IF f = "saveEnhancement"
    THEN Outcome(st, "raised", "storage error", <<changeId>>, <<>>, <<>>)
    ELSE Outcome([st EXCEPT !.enh = Put(st.enh,
                      EditedEnhancement(st.enh[enhancementId],
                                        extractChangeIndex(changeId), newValue))],
                 "returned", "none", <<changeId>>, <<>>, <<>>)

\* a variant of batchApproveEnhancements whose loop ends at the first id that fails
RECURSIVE batchApproveEnhancements_StopsAtFailure(_, _, _, _, _)
batchApproveEnhancements_StopsAtFailure(st, ids, faults, i, userId) ==
    IF i > Len(ids)
    THEN Outcome(st, "returned", "none", ids, <<>>, <<>>)
    ELSE LET one == approveChanges(st, ids[i], NoIds, userId, faults[i])
             rest == batchApproveEnhancements_StopsAtFailure(
                         [enh |-> one.enh, hist |-> one.hist, uuid |-> one.uuid],
                         ids, faults, i + 1, userId)
         IN  IF one.outcome = "returned"
             THEN [rest EXCEPT !.successful = <<ids[i]>> \o @]
             ELSE Outcome([enh |-> one.enh, hist |-> one.hist, uuid |-> one.uuid],
                          "returned", "none", ids, <<>>,
                          <<[id |-> ids[i], error |-> one.error]>>)

\* batchApproveEnhancements lines 359-381: ids[i..], faults[i] hits the i-th approveChanges
RECURSIVE batchApproveEnhancements(_, _, _, _, _)
batchApproveEnhancements(st, ids, faults, i, userId) ==
    IF i > Len(ids)
    THEN Outcome(st, "returned", "none", ids, <<>>, <<>>)
    ELSE LET one == approveChanges(st, ids[i], NoIds, userId, faults[i])
             rest == batchApproveEnhancements(
                         [enh |-> one.enh, hist |-> one.hist, uuid |-> one.uuid],
                         ids, faults, i + 1, userId)
         IN  IF one.outcome = "returned"
             THEN [rest EXCEPT !.successful = <<ids[i]>> \o @]
             ELSE [rest EXCEPT !.failed = <<[id |-> ids[i], error |-> one.error]>> \o @]

\* batchRejectEnhancements lines 383-406
RECURSIVE batchRejectEnhancements(_, _, _, _, _)
batchRejectEnhancements(st, ids, faults, i, feedback) ==
    IF i > Len(ids)
    THEN Outcome(st, "returned", "none", ids, <<>>, <<>>)
    ELSE LET one == rejectChanges(st, ids[i], NoIds, feedback, faults[i])
             rest == batchRejectEnhancements(
                         [enh |-> one.enh, hist |-> one.hist, uuid |-> one.uuid],
                         ids, faults, i + 1, feedback)
         IN  IF one.outcome = "returned"
             THEN [rest EXCEPT !.successful = <<ids[i]>> \o @]
             ELSE [rest EXCEPT !.failed = <<[id |-> ids[i], error |-> one.error]>> \o @]

\* a variant of rollbackChange that replaces the entry it rolls back by the rollback entry
rollbackChange_ReplacesEntry(st, historyEntryId, userId, f) ==
    IF f # "none" \/ historyEntryId \notin DOMAIN st.hist
    THEN Outcome(st, "raised", "storage error", <<>>, <<>>, <<>>)
    ELSE LET entry == st.hist[historyEntryId]
             rollbackEnh == RollbackEnhancementDoc(Uuid(st.uuid + 1), entry)
             rollbackEntry == RollbackHistoryEntry(Uuid(st.uuid + 2), rollbackEnh.id, entry,
                                                   userId)
         IN  Outcome([st EXCEPT !.uuid = @ + 2, !.enh = Put(st.enh, rollbackEnh),
                                !.hist = Put(Delete(st.hist, historyEntryId), rollbackEntry)],
                     "returned", "none", <<>>, <<>>, <<>>)

\* rollbackChange lines 426-492
rollbackChange(st, historyEntryId, userId, f) ==
    IF f = "read"
    THEN Outcome(st, "raised", "storage error", <<>>, <<>>, <<>>)
    ELSE IF historyEntryId \notin DOMAIN st.hist
    THEN Outcome(st, "raised", "History entry not found", <<>>, <<>>, <<>>)
    ELSE LET entry == st.hist[historyEntryId]
             rollbackEnh == RollbackEnhancementDoc(Uuid(st.uuid + 1), entry)
             rollbackEntry == RollbackHistoryEntry(Uuid(st.uuid + 2), rollbackEnh.id, entry,
                                                   userId)
         IN  IF f = "saveEnhancement"
             THEN Outcome(st, "raised", "storage error", <<>>, <<>>, <<>>)
             ELSE IF f = "saveChangeHistory"
             THEN Outcome([st EXCEPT !.uuid = @ + 1, !.enh = Put(st.enh, rollbackEnh)],
                          "raised", "storage error", <<>>, <<>>, <<>>)
             ELSE Outcome([st EXCEPT !.uuid = @ + 2, !.enh = Put(st.enh, rollbackEnh),
                                     !.hist = saveChangeHistory(st.hist, <<rollbackEntry>>)],
                          "returned", "none", <<>>, <<>>, <<>>)

\* the loop of rollbackEnhancement lines 516-518 over entries[i..]; the first rollback
\* that raises ends the call
RECURSIVE RollbackEach(_, _, _, _, _)
RollbackEach(st, entries, faults, i, userId) ==
    IF i > Len(entries)
    THEN Outcome(st, "returned", "none", entries, entries, <<>>)
    ELSE LET one == rollbackChange(st, entries[i], userId, faults[i])
         IN  IF one.outcome = "raised"
             THEN [one EXCEPT !.addressed = entries,
                              !.successful = SubSeq(entries, 1, i - 1)]
             ELSE RollbackEach([enh |-> one.enh, hist |-> one.hist, uuid |-> one.uuid],
                               entries, faults, i + 1, userId)

Reverse(seq) == [i \in 1..Len(seq) |-> seq[Len(seq) + 1 - i]]

\* the ids of the entries index.getAll(enhancementId) may return: every entry of the
\* enhancement once, in primary-key order.  The keys are random UUIDs, so any order of
\* the entries can be their key order.
EntriesInKeyOrder(hist, enhancementId) ==
    LET ids == {h \in DOMAIN hist : hist[h].enhancementId = enhancementId}
    IN  {seq \in [1..Cardinality(ids) -> ids] :
            \A i, j \in 1..Cardinality(ids) : i # j => seq[i] # seq[j]}

\* rollbackEnhancement lines 494-519, given what getAll returned
rollbackEnhancement(st, historyEntries, faults, userId, f) ==
    IF f = "read"
    THEN Outcome(st, "raised", "storage error", <<>>, <<>>, <<>>)
    ELSE RollbackEach(st, Reverse(historyEntries), faults, 1, userId)

\* deleteEnhancement lines 533-543
deleteEnhancement(st, enhancementId, f) ==
    IF f = "saveEnhancement"
    THEN Outcome(st, "raised", "storage error", <<>>, <<>>, <<>>)
    ELSE Outcome([st EXCEPT !.enh = Delete(st.enh, enhancementId)],
                 "returned", "none", <<>>, <<>>, <<>>)

\* saveEnhancement lines 521-531
saveEnhancement(st, enhancement, f) ==
    IF f = "saveEnhancement"
    THEN Outcome(st, "raised", "storage error", <<>>, <<>>, <<>>)
    ELSE Outcome([st EXCEPT !.enh = Put(st.enh, enhancement)],
                 "returned", "none", <<>>, <<>>, <<>>)

\* Date.now() - 30 * 24 * 60 * 60 * 1000 (line 548), the clock counting days
ThirtyDays == 30

\* clearHistory with the comparison of line 560 taken as "at or before the cutoff"
clearHistory_AtOrBefore(st, planId, olderThan, f) ==
    LET cutoffDate == IF olderThan # NoDate THEN olderThan[1] ELSE now - ThirtyDays
    IN  IF f = "saveChangeHistory"
        THEN Outcome(st, "raised", "storage error", <<>>, <<>>, <<>>)
        ELSE Outcome([st EXCEPT !.hist =
                        [h \in {k \in DOMAIN st.hist :
                                   ~(st.hist[k].planId = planId
                                     /\ st.hist[k].appliedAt <= cutoffDate)} |-> st.hist[h]]],
                     "returned", "none", <<>>, <<>>, <<>>)

\* clearHistory lines 545-570: the cursor over the plan's entries, in one transaction
clearHistory(st, planId, olderThan, f) ==
    LET cutoffDate == IF olderThan # NoDate THEN olderThan[1] ELSE now - ThirtyDays
    IN  IF f = "saveChangeHistory"
        THEN Outcome(st, "raised", "storage error", <<>>, <<>>, <<>>)
        ELSE Outcome([st EXCEPT !.hist =
                        [h \in {k \in DOMAIN st.hist :
                                   ~(st.hist[k].planId = planId
                                     /\ st.hist[k].appliedAt < cutoffDate)} |-> st.hist[h]]],
                     "returned", "none", <<>>, <<>>, <<>>)

---------------------------------------------------------------------------
(* IndexedDBEnhancementService: the calls *)

EnhStores == [enh |-> enhancements, hist |-> history, uuid |-> nextUuid]

\* the budget of randomUUID() draws a call of op must stay within
DrawLimit(op) == IF op = "rollbackEnhancement" THEN MaxRollbackDraws ELSE MaxDraws

\* the call settles with result r
Settle(op, target, faults, r) ==
    /\ Idle
    /\ r.uuid <= DrawLimit(op) + Cardinality(DOMAIN plans)
    /\ enhancements' = r.enh
    /\ history' = r.hist
    /\ nextUuid' = r.uuid
    /\ lastCall' = Call(op, target, r.addressed, faults, r.outcome, r.error,
                        r.successful, r.failed)
    /\ emitted' = <<>>
    /\ UNCHANGED <<others, planState, plans, syncQueue, isOnline, succeeded, now, eventListeners, draining>>

User == "anonymous"

SaveEnhancement(enhancement, f) ==
    Settle("saveEnhancement", enhancement.id, <<f>>,
           saveEnhancement(EnhStores, enhancement, f))

DeleteEnhancement(enhancementId, f) ==
    Settle("deleteEnhancement", enhancementId, <<f>>,
           deleteEnhancement(EnhStores, enhancementId, f))

ApproveChanges(enhancementId, changeIds, f) ==
    Settle("approveChanges", enhancementId, <<f>>,
           approveChanges(EnhStores, enhancementId, changeIds, User, f))

RejectChanges(enhancementId, changeIds, feedback, f) ==
    Settle("rejectChanges", enhancementId, <<f>>,
           rejectChanges(EnhStores, enhancementId, changeIds, feedback, f))

EditChange(enhancementId, changeId, newValue, f) ==
    /\ \A e \in DOMAIN enhancements : \A i \in 1..Len(enhancements[e].changes) :
          enhancements[e].changes[i].description < MaxEdits
    /\ Settle("editChange", enhancementId, <<f>>,
              editChange(EnhStores, enhancementId, changeId, newValue, f))

BatchApproveEnhancements(enhancementIds, faults) ==
    Settle("batchApproveEnhancements", <<"batch", 0>>, faults,
           batchApproveEnhancements(EnhStores, enhancementIds, faults, 1, User))

BatchRejectEnhancements(enhancementIds, feedback, faults) ==
    Settle("batchRejectEnhancements", <<"batch", 0>>, faults,
           batchRejectEnhancements(EnhStores, enhancementIds, faults, 1, feedback))

RollbackChange(historyEntryId, f) ==
    Settle("rollbackChange", historyEntryId, <<f>>,
           rollbackChange(EnhStores, historyEntryId, User, f))

RollbackEnhancement(enhancementId, historyEntries, faults, f) ==
    Settle("rollbackEnhancement", enhancementId, <<f>> \o faults,
           rollbackEnhancement(EnhStores, historyEntries, faults, User, f))

ClearHistory(planId, olderThan, f) ==
    Settle("clearHistory", planId, <<f>>, clearHistory(EnhStores, planId, olderThan, f))

---------------------------------------------------------------------------
(* PlanProvider: its effects and its updatePlan *)

ProviderEvents == {"planCreated", "planUpdated", "planDeleted", "plansLoaded", "error"}

\* the effect of lines 146-181: the five handlers are registered
Mount ==
    /\ Idle
    /\ eventListeners = EmptyObj
    /\ eventListeners' = [e \in ProviderEvents |-> Listener(<<"handle", e>>, "dispatches")]
    /\ UNCHANGED <<others, planState, plans, syncQueue, isOnline, succeeded, enhancements,
                   history, nextUuid, now, lastCall, emitted, draining>>

\* updatePlan lines 246-256: the optimistic update is dispatched, then the service is called
ProviderUpdatePlan(input) ==
    /\ Idle
    /\ providerCall = NoProviderCall
    /\ planState' = planReducer(planState,
                        [type |-> "OPTIMISTIC_UPDATE",
                         payload |-> [planId |-> input.id,
                                      updates |-> Spread(input, [updatedAt |-> now])]])
    /\ providerCall' = [op |-> "updatePlan", input |-> input, before |-> planState.plans]
    /\ UNCHANGED <<services, indexedDBService, initCalls, returned, retry, inflight, log>>

\* line 258: await planService.updatePlan(input)
ProviderCallsService(f) ==
    /\ providerCall.op = "updatePlan"
    /\ updatePlan(providerCall.input, f)

\* updatePlan lines 259-269: the service's promise settled; when it rejected the catch
\* block dispatches REVERT_OPTIMISTIC and SET_ERROR and rethrows
ProviderSettles ==
    /\ providerCall.op = "updatePlan"
    /\ lastCall.op = "updatePlan"
    /\ planState' =
          IF lastCall.outcome = "raised"
          THEN planReducer(planReducer(planState, [type |-> "REVERT_OPTIMISTIC",
                                                   payload |-> providerCall.input.id]),
                           [type |-> "SET_ERROR", payload |-> lastCall.error])
          ELSE planState
    /\ providerCall' = NoProviderCall
    /\ UNCHANGED <<services, indexedDBService, initCalls, returned, retry, inflight, log>>

---------------------------------------------------------------------------
(* IEEE 754 double arithmetic on the values the completion percentage goes through.    *)
(* A double other than zero is its 53 significant bits, the first of them 1, and the   *)
(* exponent exp: its value is 0.bits * 2^exp.                                          *)

Precision == 53

Zero == [bits |-> <<>>, exp |-> 0]

\* what is left of r / t after its first n binary digits, times t, for 0 <= r < t
Remainders(r, t) ==
    LET left[n \in 0..Precision] == IF n = 0 THEN r ELSE (2 * left[n - 1]) % t
    IN  left

\* the first Precision binary digits of r / t after the point, for 0 <= r < t
Digits(r, t) == [n \in 1..Precision |-> (2 * Remainders(r, t)[n - 1]) \div t]

\* the binary digits of the natural number n, and the number of a sequence of digits
RECURSIVE Binary(_)
Binary(n) == IF n = 0 THEN <<>> ELSE Binary(n \div 2) \o <<n % 2>>

RECURSIVE Natural(_)
Natural(bits) ==
    IF bits = <<>> THEN 0
    ELSE 2 * Natural(SubSeq(bits, 1, Len(bits) - 1)) + bits[Len(bits)]

\* bits + 1, with the carry out of the first digit: the last 0 becomes 1 and the digits
\* after it 0
Incremented(bits) ==
    LET zeros == {i \in 1..Len(bits) : bits[i] = 0}
        last == CHOOSE i \in zeros : \A j \in zeros : j <= i
    IN  IF zeros = {} THEN [bits |-> [i \in 1..Len(bits) |-> 0], carry |-> 1]
        ELSE [bits |-> [i \in 1..Len(bits) |->
                           IF i < last THEN bits[i] ELSE IF i = last THEN 1 ELSE 0],
              carry |-> 0]

\* round to nearest, ties to even: the double of the value 0.kept guard ... * 2^exp, where
\* sticky tells whether a digit after the guard digit is 1
Rounded(kept, guard, sticky, exp) ==
    IF guard = 1 /\ (sticky \/ kept[Len(kept)] = 1)
    THEN LET up == Incremented(kept)
         IN  IF up.carry = 1
             THEN [bits |-> <<1>> \o SubSeq(up.bits, 1, Len(kept) - 1), exp |-> exp + 1]
             ELSE [bits |-> up.bits, exp |-> exp]
    ELSE [bits |-> kept, exp |-> exp]

\* the doublings that bring c / t into [1/2, 1), and c after them
RECURSIVE Doublings(_, _)
Doublings(c, t) == IF 2 * c >= t THEN 0 ELSE 1 + Doublings(2 * c, t)

RECURSIVE Doubled(_, _)
Doubled(c, t) == IF 2 * c >= t THEN c ELSE Doubled(2 * c, t)

\* the double c / t of the integers 0 <= c <= t, t > 0
Quotient(c, t) ==
    IF c = 0 THEN Zero
    ELSE IF c = t THEN [bits |-> <<1>> \o [i \in 1..(Precision - 1) |-> 0], exp |-> 1]
    ELSE LET r == Doubled(c, t)
             left == Remainders(r, t)[Precision]
         IN  Rounded(Digits(r, t), (2 * left) \div t, (2 * left) % t # 0,
                     0 - Doublings(c, t))

\* the digits of bits * k with the carry out of the first digit, for a small k
Multiplied(bits, k) ==
    LET n == Len(bits)
        carry[i \in 1..(n + 1)] == IF i = n + 1 THEN 0 ELSE (bits[i] * k + carry[i + 1]) \div 2
    IN  [bits |-> [i \in 1..n |-> (bits[i] * k + carry[i + 1]) % 2], carry |-> carry[1]]

\* the double x * k for a natural number k > 0
Product(x, k) ==
    IF x = Zero THEN Zero
    ELSE LET m == Multiplied(x.bits, k)
             all == Binary(m.carry) \o m.bits
             more == Len(all) - Precision
         IN  IF more = 0 THEN [bits |-> all, exp |-> x.exp]
             ELSE Rounded(SubSeq(all, 1, Precision), all[Precision + 1],
                          \E i \in (Precision + 2)..Len(all) : all[i] = 1,
                          x.exp + more)

\* Math.round of a double x >= 0 below 2^Precision: floor(x + 0.5)
MathRound(x) ==
    IF x = Zero \/ x.exp < 0 THEN 0
    ELSE IF x.exp = 0 THEN 1
    ELSE Natural(SubSeq(x.bits, 1, x.exp))
         + (IF x.exp < Precision THEN x.bits[x.exp + 1] ELSE 0)

---------------------------------------------------------------------------
(* usePlans: the getters over the provider's plans *)

NoValue == [op |-> "none"]

\* Array.prototype.find over the cached plans: the plans of the id
Found(state, planId) == SelectSeq(state.plans, LAMBDA plan : plan.id = planId)

\* getTotalItemsCount lines 526-530
getTotalItemsCount(state, planId) ==
    IF Found(state, planId) = <<>> THEN 0
    ELSE Len(Head(Found(state, planId)).structuredData.items)

\* getCompletedItemsCount lines 519-523
getCompletedItemsCount(state, planId) ==
    IF Found(state, planId) = <<>> THEN 0
    ELSE Len(SelectSeq(Head(Found(state, planId)).structuredData.items,
                       LAMBDA item : item.status = "completed"))

\* getCompletionPercentage lines 533-538: Math.round((completed / total) * 100)
getCompletionPercentage(state, planId) ==
    LET total == getTotalItemsCount(state, planId)
    IN  IF total = 0 THEN 0
        ELSE MathRound(Product(Quotient(getCompletedItemsCount(state, planId), total), 100))

GetCompletionPercentage(planId) ==
    /\ returned' = [op |-> "getCompletionPercentage", target |-> planId,
                    value |-> getCompletionPercentage(planState, planId)]
    /\ UNCHANGED <<services, indexedDBService, initCalls, planState, providerCall, retry,
                   inflight, log>>

---------------------------------------------------------------------------
(* AIServiceWithRetry.withRetry *)

DefaultMaxRetries == 3

NoError == [class |-> "none"]

\* a decorator constructed with maxRetries, lines 673-678, before withRetry is called.
\* invocations and errors are history fields: the calls of the operation and what the
\* failed ones threw.
Decorator(maxRetries) ==
    [ maxRetries |-> maxRetries, status |-> "idle", attempt |-> 0, lastError |-> NoError,
      settled |-> NoError, invocations |-> 0, errors |-> <<>> ]

NoRetry == Decorator(DefaultMaxRetries)

\* what the operation may throw: an AIServiceError, retryable or not, or another Error
Thrown(invocation) ==
    {[class |-> "AIServiceError", retryable |-> b, invocation |-> invocation] : b \in BOOLEAN}
    \cup {[class |-> "Error", retryable |-> FALSE, invocation |-> invocation]}

\* the catch block with the test of retryable left out
Caught_RetriesAll(r, error) ==
    IF r.attempt = r.maxRetries
    THEN [r EXCEPT !.lastError = error, !.status = "raised", !.settled = error]
    ELSE [r EXCEPT !.lastError = error, !.status = "waiting"]

\* the catch block, lines 724-740, and for the last attempt the throw of line 743
Caught(r, error) ==
    IF error.class = "AIServiceError" /\ ~error.retryable
    THEN [r EXCEPT !.lastError = error, !.status = "raised", !.settled = error]
    ELSE IF r.attempt = r.maxRetries
    THEN [r EXCEPT !.lastError = error, !.status = "raised", !.settled = error]
    ELSE [r EXCEPT !.lastError = error, !.status = "waiting"]

RetryFrame ==
    UNCHANGED <<services, indexedDBService, initCalls, planState, providerCall, returned,
                inflight, log>>

\* withRetry is called, line 718: the loop starts with attempt 0
WithRetry ==
    /\ retry.status = "idle"
    /\ 0 <= retry.maxRetries
    /\ retry' = [retry EXCEPT !.status = "calling"]
    /\ RetryFrame

\* line 723, return await operation(): the operation returns
OperationReturns ==
    /\ retry.status = "calling"
    /\ retry' = [retry EXCEPT !.status = "returned", !.invocations = @ + 1,
                              !.settled = [class |-> "result",
                                           invocation |-> retry.invocations + 1]]
    /\ RetryFrame

\* line 723 and the catch block: the operation throws
OperationThrows(error) ==
    /\ retry.status = "calling"
    /\ error \in Thrown(retry.invocations + 1)
    /\ retry' = [Caught(retry, error) EXCEPT !.invocations = @ + 1,
                                             !.errors = Append(@, error)]
    /\ RetryFrame

\* lines 738-739: the timer of the backoff fires, and the loop goes on
BackoffEnds ==
    /\ retry.status = "waiting"
    /\ retry' = [retry EXCEPT !.status = "calling", !.attempt = @ + 1]
    /\ RetryFrame

---------------------------------------------------------------------------
(* Mutations issued without awaiting the one before *)

MaxTasks == 2       \* mutations in flight at once

Tasks == 1..MaxTasks

\* no mutation in flight.  plansStore and queueStore hold the requests made on the two
\* object stores that have not completed: the requests on one store complete in the order
\* they were made.
NoTasks ==
    [ tasks |-> [c \in Tasks |-> [phase |-> "idle"]], plansStore |-> <<>>, queueStore |-> <<>> ]

\* the document a mutation builds from the one it read: updatePlan lines 161-170,
\* addPlanItem lines 228-242
Built(call, existingPlan, id) ==
    IF call.op = "updatePlan" THEN UpdatedPlan(existingPlan, call.input)
    ELSE PlanWithNewItem(existingPlan, call.item, id)

\* savePlan that reads the stored plan again and applies the mutation to it
Saved_Rebuilt(task, stored) ==
    IF task.doc.id \in DOMAIN stored
    THEN Built(task.call, stored[task.doc.id],
               task.doc.structuredData.items[Len(task.doc.structuredData.items)].id)
    ELSE task.doc

\* savePlan, enhancementService.ts lines 770-786: store.put of the document the mutation
\* built
Saved(task, stored) == task.doc

TaskFrame == UNCHANGED <<isOnline, enhancements, history, now, lastCall, eventListeners,
                         draining, indexedDBService, initCalls, providerCall, returned, retry>>

\* updatePlan / addPlanItem is called and not awaited: after init() it asks for the plan
Issue(c, call) ==
    /\ Idle
    /\ inflight.tasks[c].phase = "idle"
    /\ inflight' = [inflight EXCEPT !.tasks[c] = [phase |-> "reading", call |-> call],
                                    !.plansStore = Append(@, <<c, "get">>)]
    /\ UNCHANGED <<plans, syncQueue, succeeded, nextUuid, emitted, planState, log>>
    /\ TaskFrame

\* the mutation returns after emit('planUpdated', updatedPlan)
Returns(c, task) ==
    /\ ~Throws("planUpdated")
    /\ emitted' = emit("planUpdated", task.doc.id)
    /\ Delivers(emit("planUpdated", task.doc.id))
    /\ succeeded' = [k \in (DOMAIN succeeded) \cup {task.doc.id} |->
                        IF k # task.doc.id THEN succeeded[k]
                        ELSE IF k \in DOMAIN succeeded THEN succeeded[k] + 1 ELSE 1]
    /\ log' = log \o IF task.phase = "writing" THEN << <<"commit", c>>, <<"publish", c>> >>
                     ELSE << <<"publish", c>> >>

\* the oldest request on the 'plans' store completes and the mutation that made it goes
\* on to its next await: after getPlan it builds its document and calls savePlan; after
\* savePlan it publishes and returns when online, and calls addToSyncQueue when offline
PlansRequestCompletes ==
    /\ inflight.plansStore # <<>>
    /\ Head(inflight.plansStore)[2] # "delete"
    /\ LET c == Head(inflight.plansStore)[1]
           task == inflight.tasks[c]
           planId == IF task.call.op = "updatePlan" THEN task.call.input.id
                     ELSE task.call.planId
           draws == IF task.call.op = "addPlanItem" THEN 1 ELSE 0
       IN  IF task.phase = "reading"
           THEN /\ planId \in DOMAIN plans
                /\ nextUuid + draws <= MaxUuid
                /\ plans[planId].version < MaxVersion
                /\ nextUuid' = nextUuid + draws
                /\ inflight' =
                      [inflight EXCEPT
                          !.tasks[c] = [phase |-> "writing", call |-> task.call,
                                        existing |-> plans[planId],
                                        doc |-> Built(task.call, plans[planId],
                                                      Uuid(nextUuid + 1))],
                          !.plansStore = Append(Tail(@), <<c, "put">>)]
                /\ UNCHANGED <<plans, syncQueue, succeeded, emitted, planState, log>>
           ELSE /\ plans' = [k \in (DOMAIN plans) \cup {task.doc.id} |->
                                IF k = task.doc.id THEN Saved(task, plans) ELSE plans[k]]
                /\ IF isOnline
                   THEN /\ Returns(c, task)
                        /\ inflight' = [inflight EXCEPT !.tasks[c].phase = "returned",
                                                        !.plansStore = Tail(@)]
                        /\ UNCHANGED <<syncQueue, nextUuid>>
                   ELSE /\ nextUuid < MaxUuid
                        /\ nextUuid' = nextUuid + 1
                        /\ log' = Append(log, <<"commit", c>>)
                        /\ inflight' =
                              [inflight EXCEPT
                                  !.tasks[c] =
                                      Spread(task, [phase |-> "enqueueing",
                                                    item |-> SyncItem(Uuid(nextUuid + 1),
                                                                 "update", task.doc.id,
                                                                 task.doc)]),
                                  !.plansStore = Tail(@),
                                  !.queueStore = Append(@, c)]
                        /\ UNCHANGED <<syncQueue, succeeded, emitted, planState>>
    /\ TaskFrame

\* the oldest addToSyncQueue request completes: its mutation publishes and returns
QueueRequestCompletes ==
    /\ inflight.queueStore # <<>>
    /\ inflight.tasks[Head(inflight.queueStore)].call.op # "deletePlan"
    /\ LET c == Head(inflight.queueStore)
           task == inflight.tasks[c]
       IN  /\ syncQueue' = addToSyncQueue(syncQueue, task.item)
           /\ Returns(c, task)
           /\ inflight' = [inflight EXCEPT !.tasks[c].phase = "returned",
                                           !.queueStore = Tail(@)]
    /\ UNCHANGED <<plans, nextUuid>>
    /\ TaskFrame

\* deletePlan is called and not awaited: after init() it asks the store to delete the plan
IssueDelete(c, planId) ==
    /\ Idle
    /\ inflight.tasks[c].phase = "idle"
    /\ inflight' = [inflight EXCEPT
                       !.tasks[c] = [phase |-> "deleting",
                                     call |-> [op |-> "deletePlan", planId |-> planId]],
                       !.plansStore = Append(@, <<c, "delete">>)]
    /\ UNCHANGED <<plans, syncQueue, succeeded, nextUuid, emitted, planState, log>>
    /\ TaskFrame

\* deletePlan returns after emit('planDeleted', planId), planService.ts lines 208-209
DeleteReturns(c, task) ==
    /\ ~Throws("planDeleted")
    /\ emitted' = emit("planDeleted", task.call.planId)
    /\ Delivers(emit("planDeleted", task.call.planId))
    /\ succeeded' = [k \in (DOMAIN succeeded) \ {task.call.planId} |-> succeeded[k]]
    /\ log' = log \o IF task.phase = "deleting" THEN << <<"commit", c>>, <<"publish", c>> >>
                     ELSE << <<"publish", c>> >>

\* the oldest request on the 'plans' store is a delete and completes (store.delete,
\* enhancementService.ts lines 791-806): deletePlan publishes and returns when online,
\* and calls addToSyncQueue when offline (planService.ts lines 200-209)
DeleteRequestCompletes ==
    /\ inflight.plansStore # <<>>
    /\ Head(inflight.plansStore)[2] = "delete"
    /\ LET c == Head(inflight.plansStore)[1]
           task == inflight.tasks[c]
       IN  /\ plans' = Delete(plans, task.call.planId)
           /\ IF isOnline
              THEN /\ DeleteReturns(c, task)
                   /\ inflight' = [inflight EXCEPT !.tasks[c].phase = "returned",
                                                   !.plansStore = Tail(@)]
                   /\ UNCHANGED <<syncQueue, nextUuid>>
              ELSE /\ nextUuid < MaxUuid
                   /\ nextUuid' = nextUuid + 1
                   /\ log' = Append(log, <<"commit", c>>)
                   /\ inflight' =
                         [inflight EXCEPT
                             !.tasks[c] =
                                 Spread(task, [phase |-> "enqueueing",
                                               item |-> SyncItem(Uuid(nextUuid + 1), "delete",
                                                            task.call.planId, "undefined")]),
                             !.plansStore = Tail(@),
                             !.queueStore = Append(@, c)]
                   /\ UNCHANGED <<syncQueue, succeeded, emitted, planState>>
    /\ TaskFrame

\* the oldest addToSyncQueue request is that of a deletePlan and completes: deletePlan
\* publishes and returns
DeleteEnqueued ==
    /\ inflight.queueStore # <<>>
    /\ inflight.tasks[Head(inflight.queueStore)].call.op = "deletePlan"
    /\ LET c == Head(inflight.queueStore)
           task == inflight.tasks[c]
       IN  /\ syncQueue' = addToSyncQueue(syncQueue, task.item)
           /\ DeleteReturns(c, task)
           /\ inflight' = [inflight EXCEPT !.tasks[c].phase = "returned",
                                           !.queueStore = Tail(@)]
    /\ UNCHANGED <<plans, nextUuid>>
    /\ TaskFrame

\* the oldest request on the 'plans' store is the getPlan of a mutation and finds no plan:
\* the mutation throws 'Plan not found', publishes the error and rejects (updatePlan lines
\* 156-159 and 185-188)
GetFindsNothing ==
    /\ inflight.plansStore # <<>>
    /\ Head(inflight.plansStore)[2] = "get"
    /\ LET c == Head(inflight.plansStore)[1]
           task == inflight.tasks[c]
           planId == IF task.call.op = "updatePlan" THEN task.call.input.id
                     ELSE task.call.planId
       IN  /\ planId \notin DOMAIN plans
           /\ ~Throws("error")
           /\ emitted' = emit("error", "Plan not found")
           /\ Delivers(emit("error", "Plan not found"))
           /\ inflight' = [inflight EXCEPT !.tasks[c].phase = "raised",
                                           !.plansStore = Tail(@)]
    /\ UNCHANGED <<plans, syncQueue, succeeded, nextUuid, log>>
    /\ TaskFrame

---------------------------------------------------------------------------
(* IndexedDBService.init: the connection to the database *)

MaxCallers == 3     \* call sites of init()
MaxInitCalls == 2   \* init() calls of one call site

Callers == 1..MaxCallers

\* this.db before the open request succeeded: null
NoDb == <<>>

\* init that looks at db instead of initPromise: a call made while the open request is
\* pending opens the database again
init_ChecksDb(s) ==
    IF s.db # NoDb THEN s
    ELSE [s EXCEPT !.initPromise = "pending", !.opened = @ + 1]

\* init lines 670-706 up to its return: the promise of the first call is returned to every
\* later one, the first call makes the promise and the open request
init(s) ==
    IF s.initPromise # "null" THEN s
    ELSE [s EXCEPT !.initPromise = "pending", !.opened = @ + 1]

\* a call site calls init() and awaits the promise it gets
InitCall(c) ==
    /\ initCalls[c].state # "waiting"
    /\ initCalls[c].calls < MaxInitCalls
    /\ indexedDBService' = init(indexedDBService)
    /\ initCalls' = [initCalls EXCEPT ![c] = [state |-> "waiting", calls |-> @.calls + 1,
                                              db |-> NoDb]]
    /\ UNCHANGED <<services, planState, providerCall, returned, retry, inflight, log>>

\* request.onsuccess lines 681-684: this.db = request.result; resolve()
OpenSucceeds ==
    /\ indexedDBService.initPromise = "pending"
    /\ indexedDBService' = [indexedDBService EXCEPT !.initPromise = "resolved",
                                                    !.db = <<"db", indexedDBService.opened>>]
    /\ UNCHANGED <<services, initCalls, planState, providerCall, returned, retry, inflight,
                   log>>

\* request.onerror lines 677-679: reject(new Error('Failed to open IndexedDB'))
OpenFails ==
    /\ indexedDBService.initPromise = "pending"
    /\ indexedDBService' = [indexedDBService EXCEPT !.initPromise = "rejected"]
    /\ UNCHANGED <<services, initCalls, planState, providerCall, returned, retry, inflight,
                   log>>

\* the await of a call site ends with the promise's outcome; a call site that got the
\* promise resolved works on this.db
InitSettles(c) ==
    /\ initCalls[c].state = "waiting"
    /\ indexedDBService.initPromise \in {"resolved", "rejected"}
    /\ initCalls' = [initCalls EXCEPT ![c].state = indexedDBService.initPromise,
                                      ![c].db = indexedDBService.db]
    /\ UNCHANGED <<services, indexedDBService, planState, providerCall, returned, retry,
                   inflight, log>>

---------------------------------------------------------------------------
\* the state after construction, with the given plans in the provider and a decorator of
\* the given maxRetries
Start(cached, maxRetries) ==
    /\ plans = EmptyObj
    /\ syncQueue = <<>>
    /\ isOnline = TRUE
    /\ succeeded = EmptyObj
    /\ enhancements = EmptyObj
    /\ history = EmptyObj
    /\ nextUuid = 0
    /\ now = 0
    /\ lastCall = NoCall
    /\ eventListeners = EmptyObj
    /\ emitted = <<>>
    /\ draining = <<>>
    /\ indexedDBService = [db |-> NoDb, initPromise |-> "null", opened |-> 0]
    /\ initCalls = [c \in Callers |-> [state |-> "idle", calls |-> 0, db |-> NoDb]]
    /\ planState = [initialState EXCEPT !.plans = cached]
    /\ providerCall = NoProviderCall
    /\ returned = NoValue
    /\ retry = Decorator(maxRetries)
    /\ inflight = NoTasks
    /\ log = <<>>

Init == Start(initialState.plans, DefaultMaxRetries)

CreateInputs ==
    {[userId |-> "user", title |-> t, content |-> "text", structuredData |-> sd] :
                                             t \in {"Morning Routine"},
                                             sd \in PartialStructuredData}

UpdateInputs ==
    {[id |-> p, structuredData |-> sd] : p \in KnownPlanIds,
                                               sd \in {[tags |-> {"work"}]}}

KnownItemIds(p) ==
    {<<"item", 0>>} \cup
    (IF p \in DOMAIN plans
     THEN {plans[p].structuredData.items[i].id :
              i \in 1..Len(plans[p].structuredData.items)}
     ELSE {})

NextPlan ==
    \/ \E input \in CreateInputs, f \in PlanFailures : createPlan(input, f)
    \/ \E input \in UpdateInputs, f \in PlanFailures : updatePlan(input, f)
    \/ \E p \in KnownPlanIds, f \in PlanFailures : deletePlan(p, f)
    \/ \E p \in KnownPlanIds, item \in NewItemInputs, f \in PlanFailures :
          addPlanItem(p, item, f)
    \/ \E p \in KnownPlanIds, f \in PlanFailures :
          \E i \in KnownItemIds(p), u \in ItemPatches : updatePlanItem(p, i, u, f)
    \/ \E p \in KnownPlanIds, f \in PlanFailures :
          \E i \in KnownItemIds(p) : removePlanItem(p, i, f)
    \/ GoOffline
    \/ \E getFails \in BOOLEAN : GoOnline(getFails)
    \/ \E fails \in BOOLEAN : RemoveNext(fails)
    \/ Await

SpecPlan == Init /\ [][NextPlan]_vars

\* time passes between two calls: the thirty days of line 548, or a day more
Tick ==
    /\ Idle
    /\ \E d \in {ThirtyDays, ThirtyDays + 1} : /\ now + d <= MaxNow
                                  /\ now' = now + d
    /\ UNCHANGED <<others, planState, plans, syncQueue, isOnline, succeeded, enhancements, history, nextUuid,
                   lastCall, eventListeners, emitted, draining>>

\* a plan created with every field of the structured payload set
FullInput ==
    [ userId |-> "user", title |-> "Morning Routine", content |-> "text",
      structuredData |-> [ type |-> "routine", items |-> <<[id |-> <<"item", 1>>, status |-> "pending", order |-> 0]>>,
                           tags |-> {"home"},
                           schedule |-> "daily", goals |-> <<"fit">>, category |-> "health" ] ]

\* Partial<StructuredPlanData> inputs of updatePlan: some fields of the payload
PayloadPatches ==
    { EmptyObj, [tags |-> {"work"}], [category |-> "sport"],
      [tags |-> {"work"}, schedule |-> "weekly"], [items |-> <<>>] }

\* UpdatePlanInput values for stored plan p, with and without a structured payload
MergeInputs(p) ==
    {[id |-> p, title |-> "Evening Routine"]} \cup
    {[id |-> p, structuredData |-> sd] : sd \in PayloadPatches}

\* a plan with a full payload is created and updated, at the same or a later time
MergeCalls ==
    \/ createPlan(FullInput, "none")
    \/ \E p \in DOMAIN plans : \E input \in MergeInputs(p) : updatePlan(input, "none")

SpecMerge == Init /\ [][MergeCalls \/ Tick \/ Await]_vars

\* the faults of the calls made while the queue is watched
QueueFaults == {"none", "addToSyncQueue"}

\* plans are written online and offline, the connection comes and goes, and the queue is
\* drained
QueueCalls ==
    \/ \E f \in QueueFaults :
          createPlan([userId |-> "user", title |-> "Morning Routine", content |-> "text",
                      structuredData |-> EmptyObj], f)
    \/ \E p \in DOMAIN plans, f \in QueueFaults :
          updatePlan([id |-> p, title |-> "Evening Routine"], f)
    \/ \E p \in KnownPlanIds, f \in QueueFaults : deletePlan(p, f)
    \/ \E p \in DOMAIN plans, item \in NewItemInputs : addPlanItem(p, item, "none")
    \/ \E p \in DOMAIN plans :
          \E i \in KnownItemIds(p) : updatePlanItem(p, i, [status |-> "completed"], "none")
    \/ \E p \in DOMAIN plans :
          \E i \in KnownItemIds(p) : removePlanItem(p, i, "none")
    \/ GoOffline
    \/ GoOnline(FALSE)
    \/ RemoveNext(FALSE)

SpecQueue == Init /\ [][QueueCalls \/ Await]_vars

\* the events of PlanServiceEvents, lines 24-30
EventNames == {"planCreated", "planUpdated", "planDeleted", "plansLoaded", "error"}

\* listeners that return or throw are registered and removed, and plans are read and
\* written, with storage requests that fail
EventCalls ==
    \/ \E event \in EventNames, does \in {"returns", "throws"} :
          on(event, Listener("listener", does))
    \/ \E event \in EventNames : off(event)
    \/ \E f \in {"none", "getPlans"} : loadPlans("user", f)
    \/ \E p \in KnownPlanIds, f \in {"none", "getPlan"} : getPlan(p, f)
    \/ \E f \in {"none", "savePlan", "addToSyncQueue"} :
          createPlan([userId |-> "user", title |-> "Morning Routine", content |-> "text",
                      structuredData |-> EmptyObj], f)
    \/ \E p \in KnownPlanIds, f \in PlanFailures :
          updatePlan([id |-> p, title |-> "Evening Routine"], f)
    \/ \E p \in KnownPlanIds, f \in {"none", "savePlan"} : deletePlan(p, f)
    \/ \E p \in DOMAIN plans, item \in NewItemInputs : addPlanItem(p, item, "none")
    \/ \E p \in DOMAIN plans :
          \E i \in KnownItemIds(p) : updatePlanItem(p, i, [status |-> "completed"], "none")
    \/ \E p \in DOMAIN plans :
          \E i \in KnownItemIds(p) : removePlanItem(p, i, "none")
    \/ GoOffline

SpecEvents == Init /\ [][EventCalls \/ Await]_vars

\* the listeners a caller registers: two that return and one that throws
Listeners ==
    {Listener("first", "returns"), Listener("second", "returns"), Listener("third", "throws")}

\* the payloads the tests publish
Payloads == {"plan", "other plan"}

\* listeners are registered, replaced and removed, and events are published
NotifyCalls ==
    \/ \E event \in EventNames, listener \in Listeners : on(event, listener)
    \/ \E event \in EventNames : off(event)
    \/ \E event \in EventNames, payload \in Payloads : Publish(event, payload)

SpecNotify == Init /\ [][NotifyCalls \/ Await]_vars

\* the call sites of init(): their calls overlap in every way, and the open request
\* succeeds or fails
InitCalls ==
    \/ \E c \in Callers : InitCall(c)
    \/ OpenSucceeds
    \/ OpenFails
    \/ \E c \in Callers : InitSettles(c)

SpecInit == Init /\ [][InitCalls]_vars

\* the inputs of the provider's updatePlan: a new title, or a structured payload
ProviderInputs ==
    {[id |-> p, title |-> "Evening Routine"] : p \in KnownPlanIds} \cup UpdateInputs

\* a mounted PlanProvider over the service: its updatePlan runs from the optimistic update
\* to the settling of the service's promise before anything else is called
ProviderCalls ==
    \/ Mount
    \/ \E input \in CreateInputs, f \in PlanFailures :
          providerCall = NoProviderCall /\ createPlan(input, f)
    \/ \E f \in {"none", "getPlans"} :
          providerCall = NoProviderCall /\ loadPlans("user", f)
    \/ \E p \in KnownPlanIds, f \in PlanFailures :
          providerCall = NoProviderCall /\ deletePlan(p, f)
    \/ \E input \in ProviderInputs : ProviderUpdatePlan(input)
    \/ \E f \in PlanFailures : ProviderCallsService(f)
    \/ ProviderSettles
    \/ providerCall = NoProviderCall /\ Await

SpecProvider == Init /\ [][ProviderCalls \/ Tick]_vars

MaxItems == 40      \* items of the plan whose percentage is asked for

\* a cached plan of total items of which the first completed ones are completed
CachedPlan(total, completed) ==
    [ id |-> Uuid(1), userId |-> "user", title |-> "Morning Routine", content |-> "text",
      structuredData |->
          [ type |-> "custom", tags |-> {},
            items |-> [i \in 1..total |->
                          [ id |-> <<"item", i>>, order |-> i - 1,
                            status |-> IF i <= completed THEN "completed"
                                       ELSE IF i % 2 = 0 THEN "pending" ELSE "in_progress" ]] ],
      metadata |-> [source |-> "user_input", language |-> "en", complexity |-> "simple"],
      version |-> 1, createdAt |-> 0, updatedAt |-> 0 ]

\* the provider holds no plan, or one plan with any number of items and completed items
InitPercent ==
    \/ Start(<<>>, DefaultMaxRetries)
    \/ \E total \in 0..MaxItems : \E completed \in 0..total :
          Start(<<CachedPlan(total, completed)>>, DefaultMaxRetries)

\* the percentage is asked for the cached plan or for a plan the provider does not hold
PercentCalls == \E planId \in {Uuid(0), Uuid(1)} : GetCompletionPercentage(planId)

SpecPercent == InitPercent /\ [][PercentCalls]_vars

\* the status of the queue is asked for while plans are written offline and the queue is
\* drained; the read of the queue may fail
StatusCalls ==
    \/ \E input \in CreateInputs : createPlan(input, "none")
    \/ \E input \in UpdateInputs : updatePlan(input, "none")
    \/ GoOffline
    \/ GoOnline(FALSE)
    \/ RemoveNext(FALSE)
    \/ \E f \in {"none", "getSyncQueue"} : GetSyncQueueStatus(f)
    \/ Await

SpecStatus == Init /\ [][StatusCalls]_vars

MaxRetries == 3     \* maxRetries of the decorator

\* a decorator of any maxRetries up to the bound
InitRetry == \E k \in 0..MaxRetries : Start(initialState.plans, k)

RetryCalls ==
    \/ WithRetry
    \/ OperationReturns
    \/ \E error \in Thrown(retry.invocations + 1) : OperationThrows(error)
    \/ BackoffEnds

SpecRetry == InitRetry /\ [][RetryCalls]_vars

\* every call of the operation settles and every backoff timer fires
SpecRetryFair ==
    /\ SpecRetry
    /\ WF_vars(OperationReturns
               \/ \E error \in Thrown(retry.invocations + 1) : OperationThrows(error))
    /\ WF_vars(BackoffEnds)

\* no mutation was issued without awaiting it
NoneIssued == \A c \in Tasks : inflight.tasks[c].phase = "idle"

\* the mutations issued on a stored plan without awaiting the one before
TaskCalls ==
    {[op |-> "updatePlan", input |-> input] : input \in {i \in UpdateInputs : i.id \in DOMAIN plans}}
    \cup {[op |-> "addPlanItem", planId |-> p, item |-> item] :
             p \in DOMAIN plans, item \in NewItemInputs}

\* a plan is created and the call awaited; then mutations of it are issued back to back
\* and run between their awaits in every order the two object stores allow, while the
\* browser goes offline and online
OverlapCalls ==
    \/ \E input \in CreateInputs : NoneIssued /\ createPlan(input, "none")
    \/ NoneIssued /\ Await
    \/ \E c \in Tasks, call \in TaskCalls : Issue(c, call)
    \/ PlansRequestCompletes
    \/ QueueRequestCompletes
    \/ GoOffline
    \/ GoOnline(FALSE)
    \/ RemoveNext(FALSE)

SpecOverlap == Init /\ [][OverlapCalls]_vars

\* a plan is created and the call awaited; then updates, item additions and deletions of
\* it are issued back to back and run between their awaits in every order the two object
\* stores allow, while the browser goes offline and online
DeleteCalls ==
    \/ NoneIssued /\ createPlan(FullInput, "none")
    \/ NoneIssued /\ Await
    \/ \E c \in Tasks, call \in TaskCalls : Issue(c, call)
    \/ \E c \in Tasks, p \in DOMAIN plans : IssueDelete(c, p)
    \/ PlansRequestCompletes
    \/ GetFindsNothing
    \/ DeleteRequestCompletes
    \/ QueueRequestCompletes
    \/ DeleteEnqueued
    \/ GoOffline
    \/ GoOnline(FALSE)
    \/ RemoveNext(FALSE)

SpecDelete == Init /\ [][DeleteCalls]_vars

\* the same under the scheduling of the event loop: the success callback of a delete
\* request that was issued runs, and so does the continuation of a settled call
SpecDrainFair ==
    Init /\ [][QueueCalls \/ Await]_vars /\ WF_vars(RemoveNext(FALSE)) /\ WF_vars(Await)

\* the same, with time passing or not between two calls
SpecReplay == Init /\ [][QueueCalls \/ Tick \/ Await]_vars

\* what the suggestion generator saves: pending enhancements with their changes
Change(operation, target, oldValue, newValue) ==
    [ operation |-> operation, target |-> target, oldValue |-> oldValue,
      newValue |-> newValue, description |-> 0, confidence |-> 9 ]

Generated(k, planId, changes) ==
    [ id |-> <<"enh", k>>, planId |-> planId, type |-> "structure", changes |-> changes,
      confidence |-> 9, status |-> "pending", createdAt |-> 0 ]

\* an enhancement with three changes
Enhancement1 ==
    Generated(1, <<"plan", 1>>, << Change("add", "items", Undefined, "a"),
                                   Change("modify", "title", "t0", "t1"),
                                   Change("remove", "tags", "x", "y") >>)

\* enhancements with one change each, for two plans
Enhancement2 == Generated(2, <<"plan", 1>>, << Change("modify", "title", "t0", "t2") >>)
Enhancement3 == Generated(3, <<"plan", 2>>, << Change("modify", "title", "t0", "t3") >>)

\* the enhancement ids a caller may name: those in the store and one that is not
KnownEnhancementIds == (DOMAIN enhancements) \cup {<<"enh", 0>>}

\* change ids a caller may pass for enhancement e: ids of its changes, an index past
\* the end, a string without an index, and an id that carries another enhancement's id
ChangeIdLists(e) ==
    { NoIds,
      Ids(<<>>),
      Ids(<<ChangeIdOf(e, 0), ChangeIdOf(e, 2)>>),
      Ids(<<ChangeIdOf(e, 12), ChangeIdOf(e, 0)>>),
      Ids(<<ChangeIdOf(e, 1), ChangeIdOf(e, 1)>>),
      Ids(<<ChangeIdText(e, <<>>)>>),
      Ids(<<ChangeIdOf(<<"enh", 0>>, 1)>>) }

ChangeIdsToEdit(e) ==
    {ChangeIdOf(e, 0), ChangeIdOf(e, 12), ChangeIdText(e, <<>>), ChangeIdOf(<<"enh", 0>>, 1)}

EnhancementIdLists ==
    { <<<<"enh", 2>>, <<"enh", 0>>, <<"enh", 3>>>>,
      <<<<"enh", 2>>, <<"enh", 2>>>>,
      <<<<"enh", 0>>>> }

BatchFaults == {"none", "saveEnhancement"}

KnownHistoryIds == (DOMAIN history) \cup {<<"uuid", 0>>}

ReviewCalls ==
    \/ \E f \in {"none", "saveEnhancement"} : SaveEnhancement(Enhancement1, f)
    \/ \E e \in KnownEnhancementIds, f \in EnhFaults :
          \E changeIds \in ChangeIdLists(e) : ApproveChanges(e, changeIds, f)
    \/ \E e \in KnownEnhancementIds, f \in {"none", "saveEnhancement"} :
          \E changeIds \in ChangeIdLists(e) : RejectChanges(e, changeIds, "too early", f)
    \/ \E e \in KnownEnhancementIds, f \in {"none", "saveEnhancement"} :
          \E changeId \in ChangeIdsToEdit(e) : EditChange(e, changeId, "edited", f)

BatchCalls ==
    \/ \E enhancement \in {Enhancement2, Enhancement3}, f \in {"none", "saveEnhancement"} :
          SaveEnhancement(enhancement, f)
    \/ \E ids \in EnhancementIdLists :
          \E faults \in [1..Len(ids) -> BatchFaults] : BatchApproveEnhancements(ids, faults)
    \/ \E ids \in EnhancementIdLists :
          \E faults \in [1..Len(ids) -> BatchFaults] :
              BatchRejectEnhancements(ids, "too early", faults)

HistoryCalls ==
    \/ SaveEnhancement(Enhancement2, "none")
    \/ \E e \in KnownEnhancementIds, f \in {"none", "saveEnhancement"} :
          ApproveChanges(e, NoIds, f)
    \/ RejectChanges(Enhancement2.id, NoIds, "too early", "none")
    \/ EditChange(Enhancement2.id, ChangeIdOf(Enhancement2.id, 0), "edited", "none")
    \/ \E e \in KnownEnhancementIds : DeleteEnhancement(e, "none")
    \/ \E h \in KnownHistoryIds, f \in EnhFaults : RollbackChange(h, f)
    \/ \E e \in KnownEnhancementIds, f \in {"none", "read"} :
          /\ nextUuid + 2 * Cardinality({h \in DOMAIN history : history[h].enhancementId = e})
                <= MaxDraws
          /\ \E entries \in EntriesInKeyOrder(history, e) :
                \E faults \in [1..Len(entries) -> {"none", "saveChangeHistory"}] :
                    RollbackEnhancement(e, entries, faults, f)
    \/ \E olderThan \in {NoDate, Date(1)}, f \in {"none", "saveChangeHistory"} :
          ClearHistory(Enhancement2.planId, olderThan, f)

\* an enhancement the generator proposes for stored plan p: retitle it
TitleEnhancement(p) ==
    Generated(4, p, << Change("modify", "title", "Morning Routine", "Evening Routine") >>)

\* a plan is created and an enhancement of its title is saved, approved, applied by the
\* caller through updatePlan, and rolled back
ApplyCalls ==
    \/ \E input \in CreateInputs : createPlan(input, "none")
    \/ \E p \in DOMAIN plans : updatePlan([id |-> p, title |-> "Evening Routine"], "none")
    \/ \E p \in DOMAIN plans : SaveEnhancement(TitleEnhancement(p), "none")
    \/ \E e \in KnownEnhancementIds : ApproveChanges(e, NoIds, "none")
    \/ \E h \in KnownHistoryIds, f \in EnhFaults : RollbackChange(h, f)

SpecApply == Init /\ [][ApplyCalls \/ Await]_vars


SpecReview == Init /\ [][ReviewCalls \/ Await]_vars

SpecBatch == Init /\ [][BatchCalls \/ Await]_vars

SpecHistory == Init /\ [][HistoryCalls \/ Await]_vars

\* two changes of an enhancement are approved, in one call or in two, and the
\* enhancement is rolled back
RollbackAllCalls ==
    \/ SaveEnhancement(Enhancement1, "none")
    \/ \E e \in KnownEnhancementIds :
          \E changeIds \in {Ids(<<ChangeIdOf(e, 0), ChangeIdOf(e, 2)>>), Ids(<<ChangeIdOf(e, 1)>>)} :
              ApproveChanges(e, changeIds, "none")
    \/ \E e \in KnownEnhancementIds, f \in {"none", "read"} :
          /\ nextUuid + 2 * Cardinality({h \in DOMAIN history : history[h].enhancementId = e})
                <= MaxRollbackDraws
          /\ \E entries \in EntriesInKeyOrder(history, e) :
                \E faults \in [1..Len(entries) -> {"none", "saveChangeHistory"}] :
                    RollbackEnhancement(e, entries, faults, f)

SpecRollbackAll ==
    Init /\ [][RollbackAllCalls \/ Await]_vars

\* the cutoffs a caller passes to clearHistory: none, or a day of the clock
ClearCutoffs == {NoDate, Date(0), Date(ThirtyDays), Date(MaxNow)}

\* enhancements of two plans are saved once and approved once, on different days, and
\* the history of a plan is cleared
ClearCalls ==
    \/ \E e \in {Enhancement2, Enhancement3, TitleEnhancement(Enhancement2.planId)} :
          /\ e.id \notin DOMAIN enhancements
          /\ SaveEnhancement(e, "none")
    \/ \E e \in DOMAIN enhancements :
          /\ enhancements[e].status = "pending"
          /\ ApproveChanges(e, NoIds, "none")
    \/ \E p \in {Enhancement2.planId, Enhancement3.planId}, olderThan \in ClearCutoffs,
          f \in {"none", "saveChangeHistory"} :
              ClearHistory(p, olderThan, f)

SpecClear == Init /\ [][ClearCalls \/ Tick \/ Await]_vars

\* the feedback a caller passes to rejectChanges: a text, or nothing
Feedbacks == {"too early", Undefined}

\* an enhancement is saved, edited, approved and rejected, on different days
RejectCalls ==
    \/ SaveEnhancement(Enhancement1, "none")
    \/ EditChange(Enhancement1.id, ChangeIdOf(Enhancement1.id, 0), "edited", "none")
    \/ \E e \in KnownEnhancementIds : ApproveChanges(e, Ids(<<ChangeIdOf(e, 1)>>), "none")
    \/ \E e \in KnownEnhancementIds, feedback \in Feedbacks, f \in EnhFaults :
          \E changeIds \in ChangeIdLists(e) : RejectChanges(e, changeIds, feedback, f)

SpecReject == Init /\ [][RejectCalls \/ Tick \/ Await]_vars

NextEnh ==
    ReviewCalls \/ BatchCalls \/ HistoryCalls \/ ApplyCalls \/ RollbackAllCalls \/ ClearCalls
        \/ Tick \/ Await

SpecEnh == Init /\ [][NextEnh]_vars

Next == NextPlan \/ NextEnh

Spec == Init /\ [][Next]_vars

---------------------------------------------------------------------------
(* Claims about the Plan Mutation Service *)

Items(p) == plans[p].structuredData.items

\* C1: with every call awaited before the next, the stored plan's version is its initial
\* version 1 plus the number of mutations on it that succeeded.
C1_VersionIsInitialPlusSuccessful ==
    \A p \in DOMAIN plans : plans[p].version = 1 + succeeded[p]

\* C2: in every stored plan the order values of the items are exactly 0..n-1.
C2_OrdersContiguous ==
    \A p \in DOMAIN plans :
        \A k \in 0..(Len(Items(p)) - 1) :
            Cardinality({i \in 1..Len(Items(p)) : Items(p)[i].order = k}) = 1

---------------------------------------------------------------------------
(* Claims about the Enhancement & History Subsystem *)

ReviewOps ==
    {"approveChanges", "rejectChanges", "editChange", "batchApproveEnhancements",
     "batchRejectEnhancements"}

Range(seq) == {seq[i] : i \in 1..Len(seq)}

\* the ids of the failed list of a batch result
FailedIds(failed) == {failed[i].id : i \in 1..Len(failed)}

\* the change ids of an enhancement: `${id}-change-${k}` for each of its changes
OwnChangeIds(enhancement) ==
    {ChangeIdOf(enhancement.id, k) : k \in 0..(Len(enhancement.changes) - 1)}

\* the ids of the history entries the step adds
NewEntries == (DOMAIN history') \ (DOMAIN history)

\* C3: a review call (approve, reject, edit, batchApprove, batchReject) changes the status
\* of an enhancement only from pending to approved or from pending to rejected.
C3_StatusLeavesOnlyPending ==
    [][lastCall'.op \in ReviewOps =>
          \A e \in (DOMAIN enhancements) \cap (DOMAIN enhancements') :
              enhancements'[e].status # enhancements[e].status =>
                  /\ enhancements[e].status = "pending"
                  /\ enhancements'[e].status \in {"approved", "rejected"}]_vars

\* C4: editChange on an enhancement that is approved or rejected fails and leaves the
\* changes of the enhancement as they were.
C4_EditOnlyWhilePending ==
    [][(/\ lastCall'.op = "editChange"
        /\ lastCall'.target \in DOMAIN enhancements
        /\ enhancements[lastCall'.target].status # "pending")
       => /\ lastCall'.outcome = "raised"
          /\ enhancements'[lastCall'.target].changes =
                 enhancements[lastCall'.target].changes]_vars

\* C5: approveChanges on a pending enhancement, addressing distinct ids of its own changes,
\* adds one history entry for each addressed change, carrying that change's values, adds
\* none for the other changes, and leaves the enhancement approved.
C5_ApproveRecordsEachAddressedChange ==
    [][(/\ lastCall'.op = "approveChanges"
        /\ lastCall'.outcome = "returned"
        /\ enhancements[lastCall'.target].status = "pending"
        /\ Range(lastCall'.addressed) \subseteq OwnChangeIds(enhancements[lastCall'.target])
        /\ Cardinality(Range(lastCall'.addressed)) = Len(lastCall'.addressed))
       => LET enhancement == enhancements[lastCall'.target]
              Recorded(k) == {h \in NewEntries :
                                 /\ history'[h].changeId = ChangeIdOf(enhancement.id, k)
                                 /\ history'[h].enhancementId = enhancement.id}
          IN  /\ Cardinality(NewEntries) = Len(lastCall'.addressed)
              /\ \A k \in 0..(Len(enhancement.changes) - 1) :
                    IF ChangeIdOf(enhancement.id, k) \in Range(lastCall'.addressed)
                    THEN /\ Cardinality(Recorded(k)) = 1
                         /\ \A h \in Recorded(k) :
                               /\ history'[h].originalValue = enhancement.changes[k + 1].oldValue
                               /\ history'[h].appliedValue = enhancement.changes[k + 1].newValue
                    ELSE Recorded(k) = {}
              /\ enhancements'[enhancement.id].status = "approved"]_vars

\* C5 witness: approveChanges of the changes 0 and 2 of the three-change enhancement has
\* returned; the history holds two entries and the enhancement is approved.
C5_Witness ==
    /\ lastCall.op = "approveChanges"
    /\ lastCall.outcome = "returned"
    /\ lastCall.target = Enhancement1.id
    /\ lastCall.addressed = <<ChangeIdOf(Enhancement1.id, 0), ChangeIdOf(Enhancement1.id, 2)>>
    /\ Cardinality(DOMAIN history) = 2
    /\ enhancements[Enhancement1.id].status = "approved"
    /\ "rejectedAt" \notin DOMAIN enhancements[Enhancement1.id]

\* C6: approveChanges and rejectChanges leave the changes of every stored enhancement as
\* they were: the same changes, in the same order, with the same values.
C6_ApproveRejectKeepChanges ==
    [][lastCall'.op \in {"approveChanges", "rejectChanges"} =>
          \A e \in DOMAIN enhancements :
              /\ e \in DOMAIN enhancements'
              /\ enhancements'[e].changes = enhancements[e].changes]_vars

\* C6 witness: rejectChanges has returned on an enhancement whose first change was edited;
\* the rejected enhancement still has its three changes, the first with the edited value.
C6_Witness ==
    /\ lastCall.op = "rejectChanges"
    /\ lastCall.outcome = "returned"
    /\ lastCall.successful # <<>>
    /\ enhancements[lastCall.target].status = "rejected"
    /\ Len(enhancements[lastCall.target].changes) = 3
    /\ enhancements[lastCall.target].changes[1].newValue = "edited"

\* C7: approveChanges returns a result that partitions the addressed ids: an id that
\* names no change of the enhancement is in failed, every other id is in successful and
\* has its history entry, and no id is in both lists or in neither.
C7_ApprovePartitionsAddressedIds ==
    [][(lastCall'.op = "approveChanges" /\ lastCall'.outcome = "returned")
       => \A id \in Range(lastCall'.addressed) :
             /\ id \notin OwnChangeIds(enhancements[lastCall'.target])
                   => id \in FailedIds(lastCall'.failed)
             /\ id \in OwnChangeIds(enhancements[lastCall'.target])
                   => /\ id \in Range(lastCall'.successful)
                      /\ \E h \in NewEntries : history'[h].changeId = id
             /\ ~(id \in Range(lastCall'.successful) /\ id \in FailedIds(lastCall'.failed))
             /\ id \in Range(lastCall'.successful) \/ id \in FailedIds(lastCall'.failed)]_vars

\* C8: approveChanges and rejectChanges on an existing enhancement return a result when a
\* storage write fails, with every addressed id that did not succeed listed in failed.
C8_WriteFailureIsReported ==
    (/\ lastCall.op \in {"approveChanges", "rejectChanges"}
     /\ lastCall.fault \in {<<"saveChangeHistory">>, <<"saveEnhancement">>}
     /\ lastCall.target \in DOMAIN enhancements)
    => /\ lastCall.outcome = "returned"
       /\ \A id \in Range(lastCall.addressed) :
             id \in Range(lastCall.successful) \/ id \in FailedIds(lastCall.failed)

\* the number of positions of seq that hold x
Occurrences(seq, x) == Cardinality({i \in 1..Len(seq) : seq[i] = x})

\* C9: batchApproveEnhancements and batchRejectEnhancements return a result in which
\* every input id is in exactly one of successful and failed, as often as it was given;
\* an id that names no enhancement, or whose approval raises, is in failed with an error,
\* and every id whose processing meets no failure gets its new status, whatever happened
\* to the ids before it.
C9_BatchProcessesEveryId ==
    [][lastCall'.op \in {"batchApproveEnhancements", "batchRejectEnhancements"} =>
          LET ids == lastCall'.addressed
              failedIds == [i \in 1..Len(lastCall'.failed) |-> lastCall'.failed[i].id]
          IN  /\ lastCall'.outcome = "returned"
              /\ \A id \in Range(ids) :
                    Occurrences(lastCall'.successful, id) + Occurrences(failedIds, id)
                        = Occurrences(ids, id)
              /\ \A i \in 1..Len(ids) :
                    /\ ids[i] \notin DOMAIN enhancements
                          => \E j \in 1..Len(lastCall'.failed) :
                                lastCall'.failed[j] =
                                    [id |-> ids[i], error |-> "Enhancement not found"]
                    /\ (/\ ids[i] \in DOMAIN enhancements
                        /\ lastCall'.op = "batchApproveEnhancements"
                        /\ \A j \in 1..Len(ids) : ids[j] = ids[i] => lastCall'.fault[j] # "none")
                          => ids[i] \in Range(failedIds) \ Range(lastCall'.successful)
                    /\ (ids[i] \in DOMAIN enhancements /\ lastCall'.fault[i] = "none")
                          => /\ ids[i] \in Range(lastCall'.successful)
                             /\ enhancements'[ids[i]].status =
                                    IF lastCall'.op = "batchApproveEnhancements"
                                    THEN "approved" ELSE "rejected"]_vars

\* C9 witness: batchApproveEnhancements over an enhancement, an unknown id and a second
\* enhancement has returned: the unknown id is in failed, both enhancements are approved.
C9_Witness ==
    /\ lastCall.op = "batchApproveEnhancements"
    /\ lastCall.addressed = <<Enhancement2.id, <<"enh", 0>>, Enhancement3.id>>
    /\ lastCall.successful = <<Enhancement2.id, Enhancement3.id>>
    /\ lastCall.failed = <<[id |-> <<"enh", 0>>, error |-> "Enhancement not found"]>>
    /\ enhancements[Enhancement2.id].status = "approved"
    /\ enhancements[Enhancement3.id].status = "approved"

\* C10: every call other than clearHistory leaves each history entry in the store with
\* the field values it had.
C10_HistoryAppendOnly ==
    [][lastCall'.op # "clearHistory" =>
          \A h \in DOMAIN history :
              h \in DOMAIN history' /\ history'[h] = history[h]]_vars

\* C10 witness: rollbackChange has returned, and the entry it rolled back is in the
\* history next to the rollback entry that names it.
C10_Witness ==
    /\ lastCall.op = "rollbackChange"
    /\ lastCall.outcome = "returned"
    /\ \E r \in DOMAIN history :
          /\ "isRollback" \in DOMAIN history[r].rollbackData
          /\ history[r].rollbackData.originalHistoryEntryId = lastCall.target
          /\ lastCall.target \in DOMAIN history
          /\ "operation" \in DOMAIN history[lastCall.target].rollbackData

\* the value a document holds at a top-level target path
ValueAt(doc, target) == IF target \in DOMAIN doc THEN doc[target] ELSE Undefined

\* C11: rollbackChange of the history entry of an approved change that the plan carries
\* (the plan holds the applied value at the change's target) leaves the stored plan with
\* the value from before the change at that target, and adds exactly one history entry.
C11_RollbackRestoresPlan ==
    [][(/\ lastCall'.op = "rollbackChange"
        /\ lastCall'.outcome = "returned"
        /\ "target" \in DOMAIN history[lastCall'.target].rollbackData
        /\ history[lastCall'.target].planId \in DOMAIN plans
        /\ ValueAt(plans[history[lastCall'.target].planId],
                   history[lastCall'.target].rollbackData.target)
              = history[lastCall'.target].appliedValue)
       => /\ history[lastCall'.target].planId \in DOMAIN plans'
          /\ ValueAt(plans'[history[lastCall'.target].planId],
                     history[lastCall'.target].rollbackData.target)
                = history[lastCall'.target].originalValue
          /\ Cardinality(NewEntries) = 1]_vars

\* the history entries attributed to enhancement e
EntriesOf(e) == {h \in DOMAIN history : history[h].enhancementId = e}

\* the entries the step adds that are rollbacks of entry h
RollbacksOf(h) ==
    {r \in NewEntries : /\ "isRollback" \in DOMAIN history'[r].rollbackData
                        /\ history'[r].rollbackData.originalHistoryEntryId = h}

\* entry a was created before entry b: Uuid(n) is the n-th id drawn
CreatedBefore(a, b) == a[2] < b[2]

\* C12: rollbackEnhancement that returns on an enhancement with k history entries adds
\* k history entries, one rollback per entry, and an entry applied later is rolled back
\* before an entry applied earlier.
C12_RollbackInReverseApplicationOrder ==
    [][(lastCall'.op = "rollbackEnhancement" /\ lastCall'.outcome = "returned")
       => /\ Cardinality(NewEntries) = Cardinality(EntriesOf(lastCall'.target))
          /\ \A h \in EntriesOf(lastCall'.target) : Cardinality(RollbacksOf(h)) = 1
          /\ \A h1, h2 \in EntriesOf(lastCall'.target) :
                CreatedBefore(h1, h2) =>
                    \A r1 \in RollbacksOf(h1), r2 \in RollbacksOf(h2) :
                        CreatedBefore(r2, r1)]_vars

\* C13: rollbackChange that raises leaves the enhancement store and the history store as
\* they were: the entry and its enhancement are untouched and no record of the call stays.
C13_FailedRollbackNotPartial ==
    [][(lastCall'.op = "rollbackChange" /\ lastCall'.outcome = "raised")
       => /\ enhancements' = enhancements
          /\ history' = history]_vars

\* the instant clearHistory compares appliedAt with: the caller's cutoff, or thirty days
\* before the call
Cutoff(olderThan) == IF olderThan = NoDate THEN now - ThirtyDays ELSE olderThan[1]

\* the entries of plan p applied strictly before the cutoff
OlderEntries(p, olderThan) ==
    {h \in DOMAIN history : /\ history[h].planId = p
                            /\ history[h].appliedAt < Cutoff(olderThan)}

\* C14: clearHistory(planId, olderThan) that returns deletes exactly the entries of the plan
\* applied strictly before the cutoff; every other entry and every enhancement is unchanged.
C14_ClearHistoryDeletesExactlyOlder ==
    [][\A p \in {Enhancement2.planId, Enhancement3.planId}, olderThan \in ClearCutoffs :
          ClearHistory(p, olderThan, "none")
          => /\ DOMAIN history' = (DOMAIN history) \ OlderEntries(p, olderThan)
             /\ \A h \in DOMAIN history' : history'[h] = history[h]
             /\ enhancements' = enhancements]_vars

\* clearHistory returned having deleted the entry of an approved enhancement of the plan
\* while an entry of the same plan and an entry of another plan stay
C14_Witness ==
    /\ lastCall.op = "clearHistory"
    /\ lastCall.outcome = "returned"
    /\ \E e \in DOMAIN enhancements :
          /\ enhancements[e].planId = lastCall.target
          /\ enhancements[e].status = "approved"
          /\ \A h \in DOMAIN history : history[h].enhancementId # e
    /\ \E h \in DOMAIN history : history[h].planId = lastCall.target
    /\ \E h \in DOMAIN history : history[h].planId # lastCall.target

---------------------------------------------------------------------------
(* Claims about the Mutation Queue *)

PlanWriteOps ==
    {"createPlan", "updatePlan", "deletePlan", "addPlanItem", "updatePlanItem", "removePlanItem"}

\* the operation kind of the queue item that stands for a call of op
OperationOf(op) ==
    IF op = "createPlan" THEN "create" ELSE IF op = "deletePlan" THEN "delete" ELSE "update"

\* C15: a write operation that returns while the service is offline appends exactly one
\* item to the queue, with a fresh id, the operation kind and plan id of the call and, for
\* create and update, the stored document; the items already queued stay as they are.  A
\* write operation that returns while the service is online leaves the queue unchanged.
C15_OfflineCommitAppendsOneItem ==
    [][(Idle /\ lastCall'.op \in PlanWriteOps /\ lastCall'.outcome = "returned")
       => IF isOnline
          THEN syncQueue' = syncQueue
          ELSE /\ Len(syncQueue') = Len(syncQueue) + 1
               /\ SubSeq(syncQueue', 1, Len(syncQueue)) = syncQueue
               /\ syncQueue'[Len(syncQueue')].operation = OperationOf(lastCall'.op)
               /\ syncQueue'[Len(syncQueue')].planId = lastCall'.target
               /\ syncQueue'[Len(syncQueue')].operation # "delete"
                     => syncQueue'[Len(syncQueue')].data = plans'[lastCall'.target]
               /\ \A i \in 1..Len(syncQueue) :
                     syncQueue[i].id # syncQueue'[Len(syncQueue')].id]_vars

\* an offline write has returned and the queue holds two items of its plan
C15_Witness ==
    /\ lastCall.op \in PlanWriteOps
    /\ lastCall.outcome = "returned"
    /\ ~isOnline
    /\ lastCall.target \in DOMAIN plans
    /\ Cardinality({i \in 1..Len(syncQueue) : syncQueue[i].planId = lastCall.target}) >= 2

\* the queue holds the item of this id
InQueue(id) == \E i \in 1..Len(syncQueue) : syncQueue[i].id = id

\* C16: an item that is in the queue while the service is online is eventually removed,
\* and whenever the service is online and no drain is running the queue is empty.
C16_OnlineDrainsQueue ==
    /\ \A n \in 1..MaxUuid : (isOnline /\ InQueue(Uuid(n))) ~> ~InQueue(Uuid(n))
    /\ [](isOnline /\ draining = <<>> => syncQueue = <<>>)

\* online again after three draws, the drain has removed one of two items and has the
\* other still to remove
C16_Witness ==
    /\ isOnline
    /\ nextUuid >= 3
    /\ Len(syncQueue) = 1
    /\ draining = <<syncQueue[1].id>>

\* C17: the drain that starts when the service comes online takes the queued items in the
\* order they were enqueued, and each item it removes is the one enqueued earliest among
\* those still queued.
C17_ReplayIsFifo ==
    [][/\ (~isOnline /\ isOnline')
             => draining' = [i \in 1..Len(syncQueue) |-> syncQueue[i].id]
       /\ Len(syncQueue') < Len(syncQueue) => syncQueue' = Tail(syncQueue)]_vars

---------------------------------------------------------------------------
(* Claims about the error conditions of the Plan Mutation Service *)

CommittedEvents == {"planCreated", "planUpdated", "planDeleted"}

\* the listener invocations of the step's call that announce a committed mutation
CommittedEmitted == {i \in 1..Len(emitted') : emitted'[i][1] \in CommittedEvents}

\* C18: updatePlan and deletePlan of a plan id that is not in the store, with the storage
\* working, raise "Plan not found", leave the store and the queue unchanged and announce
\* no committed mutation.
C18_UnknownPlanIsNotFound ==
    [][(/\ Idle
        /\ lastCall'.op \in {"updatePlan", "deletePlan"}
        /\ lastCall'.fault = <<"none">>
        /\ lastCall'.target \notin DOMAIN plans)
       => /\ lastCall'.outcome = "raised"
          /\ lastCall'.error = "Plan not found"
          /\ plans' = plans
          /\ syncQueue' = syncQueue
          /\ CommittedEmitted = {}]_vars

\* the ids of the items of stored plan p
ItemIds(p) == {Items(p)[i].id : i \in 1..Len(Items(p))}

\* C19: updatePlanItem and removePlanItem of a stored plan with an item id that is not
\* among its items, with the storage working, raise "Plan item not found" and leave the
\* stored plan, its version included, unchanged.
C19_UnknownItemIsNotFound ==
    [][\A p \in DOMAIN plans :
          \A i \in KnownItemIds(p) \ ItemIds(p) :
              (\/ removePlanItem(p, i, "none")
               \/ \E u \in ItemPatches : updatePlanItem(p, i, u, "none"))
              => /\ lastCall'.outcome = "raised"
                 /\ lastCall'.error = "Plan item not found"
                 /\ plans' = plans]_vars

PlanOps == PlanWriteOps \cup {"loadPlans", "getPlan"}

\* the invocations of the 'error' listener the step's call made
ErrorEmitted == {i \in 1..Len(emitted') : emitted'[i][1] = "error"}

\* C20: a call of the Plan Mutation Service that rejects while an 'error' listener is
\* registered has invoked that listener exactly once, with the condition the call rejects
\* with, and has invoked no listener of a committed-mutation event.
C20_RejectionPublishedOnce ==
    [][(/\ Idle
        /\ lastCall'.op \in PlanOps
        /\ lastCall'.outcome = "raised"
        /\ "error" \in DOMAIN eventListeners)
       => /\ Cardinality(ErrorEmitted) = 1
          /\ \A i \in ErrorEmitted : emitted'[i][2] = lastCall'.error
          /\ CommittedEmitted = {}]_vars

---------------------------------------------------------------------------
(* Claims about the documents the Plan Mutation Service writes *)

\* the structured payload an UpdatePlanInput names, empty when it names none
PayloadOf(input) ==
    IF "structuredData" \in DOMAIN input THEN input.structuredData ELSE EmptyObj

\* C21: updatePlan that returns stores a plan whose structured payload has the value of
\* the input for every field the input names and the stored value for every other field,
\* and whose id, userId, createdAt and metadata are the stored ones.
C21_UpdateMergesPayload ==
    [][\A p \in DOMAIN plans :
          \A input \in MergeInputs(p) :
              updatePlan(input, "none")
              => /\ p \in DOMAIN plans'
                 /\ DOMAIN plans'[p].structuredData =
                        (DOMAIN plans[p].structuredData) \cup (DOMAIN PayloadOf(input))
                 /\ \A k \in DOMAIN plans'[p].structuredData :
                        plans'[p].structuredData[k] =
                            IF k \in DOMAIN PayloadOf(input) THEN PayloadOf(input)[k]
                            ELSE plans[p].structuredData[k]
                 /\ plans'[p].id = plans[p].id
                 /\ plans'[p].userId = plans[p].userId
                 /\ plans'[p].createdAt = plans[p].createdAt
                 /\ plans'[p].metadata = plans[p].metadata]_vars

\* updatePlan has returned at a later time than the plan was created, and the plan has
\* the tags of the input beside the items and the category it was created with
C21_Witness ==
    /\ lastCall.op = "updatePlan"
    /\ lastCall.outcome = "returned"
    /\ lastCall.target \in DOMAIN plans
    /\ plans[lastCall.target].updatedAt > plans[lastCall.target].createdAt
    /\ plans[lastCall.target].structuredData.tags = {"work"}
    /\ plans[lastCall.target].structuredData.category = "health"
    /\ plans[lastCall.target].structuredData.items = FullInput.structuredData.items

---------------------------------------------------------------------------
(* Claims about the Event Notifier *)

\* the listeners of the events other than event are the same after the step
OthersKept(event) ==
    /\ (DOMAIN eventListeners') \ {event} = (DOMAIN eventListeners) \ {event}
    /\ \A e \in (DOMAIN eventListeners) \ {event} : eventListeners'[e] = eventListeners[e]

\* C22: on(event, listener) makes listener the one listener of the event, off(event)
\* leaves the event without a listener, and both leave the listeners of the other events
\* as they are; emit(event, payload) invokes the listener registered for the event, once
\* and with the payload, or nothing when there is none, and changes no registration.
C22_OneListenerPerEvent ==
    [][\A event \in EventNames :
          /\ \A listener \in Listeners :
                on(event, listener)
                => /\ event \in DOMAIN eventListeners'
                   /\ eventListeners'[event] = listener
                   /\ OthersKept(event)
          /\ off(event) => (event \notin DOMAIN eventListeners' /\ OthersKept(event))
          /\ \A payload \in Payloads :
                Publish(event, payload)
                => /\ eventListeners' = eventListeners
                   /\ emitted' = IF event \in DOMAIN eventListeners
                                 THEN << <<event, payload, eventListeners[event].name>> >>
                                 ELSE <<>>]_vars

\* an event was published to the listener that replaced another one for it, while a
\* different listener is registered for another event
C22_Witness ==
    /\ lastCall.op = "emit"
    /\ lastCall.target \in DOMAIN eventListeners
    /\ eventListeners[lastCall.target].name = "second"
    /\ emitted = << <<lastCall.target, "plan", "second">> >>
    /\ \E e \in DOMAIN eventListeners : eventListeners[e].name = "first"

---------------------------------------------------------------------------
(* Claims about the connection to the database *)

\* C23: however the init() calls of the call sites follow or overlap each other, the
\* database is opened at most once, every call settles with the outcome of that one open
\* request, the calls that resolve all see the one database it gave, and a call made
\* after the first one changes nothing in the service.
C23_InitOpensOnce ==
    /\ [](/\ indexedDBService.opened <= 1
          /\ \A c \in Callers :
                initCalls[c].state \in {"resolved", "rejected"}
                => /\ initCalls[c].state = indexedDBService.initPromise
                   /\ initCalls[c].db = indexedDBService.db
          /\ \A c \in Callers :
                initCalls[c].state = "resolved" => initCalls[c].db = <<"db", 1>>)
    /\ [][\A c \in Callers :
             (InitCall(c) /\ indexedDBService.initPromise # "null")
             => indexedDBService' = indexedDBService]_vars

\* three call sites called init() while the open request was pending, one of them twice,
\* and all got the database of the one open request
C23_Witness ==
    /\ indexedDBService.opened = 1
    /\ \A c \in Callers : initCalls[c].state = "resolved" /\ initCalls[c].db = <<"db", 1>>
    /\ \E c \in Callers : initCalls[c].calls = 2

---------------------------------------------------------------------------
(* Claims about the PlanProvider's cache *)

\* C25: when the service rejects the updatePlan the provider applied optimistically, the
\* provider's plans after its catch block are the plans it held before the call.
C25_RevertRestoresSnapshot ==
    [][(ProviderSettles /\ lastCall.outcome = "raised")
       => planState'.plans = providerCall.before]_vars

---------------------------------------------------------------------------
(* Claims about the getters of usePlans *)

\* the items of the cached plan planId, none when the provider does not hold the plan
CachedItems(planId) ==
    IF Found(planState, planId) = <<>> THEN <<>>
    ELSE Head(Found(planState, planId)).structuredData.items

\* 100 * completed / total rounded to the nearest integer, a half rounded up
RoundedPercent(completed, total) == (200 * completed + total) \div (2 * total)

\* C24: getCompletionPercentage(planId) is 100 * completed / total rounded to the nearest
\* integer, where total counts the plan's items and completed those of status completed;
\* it is 0 when the plan has no items or is unknown, and always an integer in 0..100.
C24_CompletionPercentage ==
    returned.op = "getCompletionPercentage"
    => LET items == CachedItems(returned.target)
           completed == Cardinality({i \in 1..Len(items) : items[i].status = "completed"})
       IN  /\ returned.value \in 0..100
           /\ returned.value = IF Len(items) = 0 THEN 0
                               ELSE RoundedPercent(completed, Len(items))

\* C26: getSyncQueueStatus resolves to pending = the number of items in the queue and one
\* summary for each of them; when the read of the queue fails it resolves to pending = 0
\* and no items.  It changes nothing and raises nothing.
C26_QueueStatus ==
    [][\A f \in {"none", "getSyncQueue"} :
          GetSyncQueueStatus(f)
          => /\ returned'.op = "getSyncQueueStatus"
             /\ lastCall' = lastCall /\ syncQueue' = syncQueue /\ emitted' = emitted
             /\ IF f = "getSyncQueue"
                THEN returned'.value = [pending |-> 0, items |-> <<>>]
                ELSE /\ returned'.value.pending = Len(syncQueue)
                     /\ Len(returned'.value.items) = Len(syncQueue)
                     /\ \A i \in 1..Len(syncQueue) :
                           \E j \in 1..Len(syncQueue) :
                              returned'.value.items[j] = Summary(syncQueue[i])]_vars

\* the status of a queue of two items was given: the create and the update of a plan
C26_Witness ==
    /\ returned.op = "getSyncQueueStatus"
    /\ returned.fault = "none"
    /\ returned.value.pending = 2
    /\ Len(syncQueue) = 2
    /\ returned.value.items[1].operation = "create"
    /\ returned.value.items[2].operation = "update"

---------------------------------------------------------------------------
(* Claims about the retry decorator *)

\* the error is one that withRetry does not retry
NonRetryable(error) == error.class = "AIServiceError" /\ ~error.retryable

\* C27: withRetry with maxRetries = k calls the operation at most k + 1 times and settles:
\* it returns the result of the first call that succeeds and calls no more, it rethrows a
\* non-retryable error right after the call that threw it, and after k + 1 calls that all
\* threw errors it retries it rethrows the last of them.
C27_RetryTerminates ==
    /\ [](/\ retry.invocations <= retry.maxRetries + 1
          /\ \A i \in 1..Len(retry.errors) :
                NonRetryable(retry.errors[i])
                => i = Len(retry.errors) /\ retry.status = "raised"
          /\ retry.status = "returned"
             => /\ retry.invocations = Len(retry.errors) + 1
                /\ retry.settled = [class |-> "result", invocation |-> retry.invocations]
          /\ retry.status = "raised"
             => /\ retry.invocations = Len(retry.errors)
                /\ retry.settled = retry.errors[Len(retry.errors)]
                /\ NonRetryable(retry.settled) \/ retry.invocations = retry.maxRetries + 1
          /\ retry.status \in {"calling", "waiting"}
             => retry.invocations = Len(retry.errors) /\ retry.invocations <= retry.maxRetries)
    /\ [][retry.status \in {"returned", "raised"} => retry' = retry]_vars
    /\ (retry.status = "calling" ~> retry.status \in {"returned", "raised"})

\* a decorator of maxRetries 3 rethrew the fourth error after three backoffs
C27_Witness ==
    /\ retry.maxRetries = 3
    /\ retry.status = "raised"
    /\ retry.invocations = 4
    /\ retry.settled = [class |-> "Error", retryable |-> FALSE, invocation |-> 4]
    /\ retry.errors[1].class = "AIServiceError"

---------------------------------------------------------------------------
(* Claims about mutations in flight at once *)

\* the position of entry in the log, 0 when it is not there
Position(entry) ==
    IF \E i \in 1..Len(log) : log[i] = entry
    THEN CHOOSE i \in 1..Len(log) : log[i] = entry
    ELSE 0

\* two mutations of one plan that both read the same document before either wrote, and
\* both returned; c2 wrote after c1, and last of all
BothReadSame(c1, c2) ==
    /\ c1 # c2
    /\ inflight.tasks[c1].phase = "returned"
    /\ inflight.tasks[c2].phase = "returned"
    /\ inflight.tasks[c1].existing = inflight.tasks[c2].existing
    /\ Position(<<"commit", c1>>) < Position(<<"commit", c2>>)
    /\ \A c \in Tasks : Position(<<"commit", c>>) <= Position(<<"commit", c2>>)

\* C28: two mutations of the same plan in flight at once can both read the plan before
\* either writes and both return; the stored plan is then the document of the one that
\* wrote last, built from the plan both read: its version is that plan's version + 1 and
\* it lacks what the other mutation changed.
C28_LostUpdate ==
    \A c1, c2 \in Tasks :
       BothReadSame(c1, c2)
       => LET read == inflight.tasks[c1].existing
          IN  /\ plans[read.id] = inflight.tasks[c2].doc
              /\ plans[read.id].version = read.version + 1
              /\ inflight.tasks[c2].call.op = "updatePlan"
                 => plans[read.id].structuredData.items = read.structuredData.items
              /\ inflight.tasks[c2].call.op = "addPlanItem"
                 => /\ plans[read.id].structuredData.tags = read.structuredData.tags
                    /\ Len(plans[read.id].structuredData.items)
                          = Len(read.structuredData.items) + 1

\* an updatePlan and an addPlanItem of the plan of version 1 both returned; the stored
\* plan has version 2 and the tags of the update, and the item that was added is lost
C28_Witness ==
    \E c1, c2 \in Tasks :
       /\ BothReadSame(c1, c2)
       /\ inflight.tasks[c1].call.op = "addPlanItem"
       /\ inflight.tasks[c2].call.op = "updatePlan"
       /\ inflight.tasks[c1].existing.version = 1
       /\ plans[inflight.tasks[c1].existing.id].version = 2
       /\ plans[inflight.tasks[c1].existing.id].structuredData.tags = {"work"}
       /\ plans[inflight.tasks[c1].existing.id].structuredData.items = <<>>
       /\ Len(inflight.tasks[c1].doc.structuredData.items) = 1

\* C29: the committed-mutation events are published in the order in which their writes
\* reached the plan store, however the mutations in flight interleave, online and offline.
C29_PublishedInCommitOrder ==
    \A c1, c2 \in Tasks :
       (/\ Position(<<"publish", c1>>) > 0
        /\ Position(<<"commit", c2>>) > 0
        /\ Position(<<"commit", c1>>) < Position(<<"commit", c2>>))
       => /\ Position(<<"publish", c2>>) = 0
             \/ Position(<<"publish", c1>>) < Position(<<"publish", c2>>)

---------------------------------------------------------------------------
(* Claims about what a rollback creates *)

NewEnhancements == (DOMAIN enhancements') \ (DOMAIN enhancements)

\* C30: a rollbackChange(historyEntryId) that returns has created one enhancement, for the
\* plan of the entry, already approved, of confidence 1.0 and with one change whose old
\* value is the entry's applied value and whose new value is the entry's original value,
\* and one history entry flagged as a rollback that names historyEntryId.
C30_RollbackCreates ==
    [][(lastCall'.op = "rollbackChange" /\ lastCall'.outcome = "returned")
       => /\ lastCall'.target \in DOMAIN history
          /\ Cardinality(NewEnhancements) = 1
          /\ Cardinality(NewEntries) = 1
          /\ \A e \in DOMAIN enhancements : enhancements'[e] = enhancements[e]
          /\ \A e \in NewEnhancements :
                /\ enhancements'[e].planId = history[lastCall'.target].planId
                /\ enhancements'[e].status = "approved"
                /\ enhancements'[e].confidence = 10
                /\ Len(enhancements'[e].changes) = 1
                /\ enhancements'[e].changes[1].oldValue
                      = history[lastCall'.target].appliedValue
                /\ enhancements'[e].changes[1].newValue
                      = history[lastCall'.target].originalValue
                /\ \A h \in NewEntries :
                      /\ history'[h].enhancementId = e
                      /\ history'[h].planId = history[lastCall'.target].planId
                      /\ "isRollback" \in DOMAIN history'[h].rollbackData
                      /\ history'[h].rollbackData.isRollback
                      /\ history'[h].rollbackData.originalHistoryEntryId = lastCall'.target]_vars

\* the rollback of an applied change returned: the store holds its approved enhancement
\* with the values swapped and the history entry that names the rolled-back one
C30_Witness ==
    /\ lastCall.op = "rollbackChange"
    /\ lastCall.outcome = "returned"
    /\ lastCall.target \in DOMAIN history
    /\ history[lastCall.target].originalValue # history[lastCall.target].appliedValue
    /\ \E e \in DOMAIN enhancements, h \in DOMAIN history :
          /\ history[h].enhancementId = e
          /\ "isRollback" \in DOMAIN history[h].rollbackData
          /\ history[h].rollbackData.originalHistoryEntryId = lastCall.target
          /\ enhancements[e].status = "approved"
          /\ enhancements[e].changes[1].oldValue = history[lastCall.target].appliedValue
          /\ enhancements[e].changes[1].newValue = history[lastCall.target].originalValue

\* C31: an entry that rolls back a rollback entry carries the original and the applied
\* value of the forward entry that was rolled back first, and the one change of its
\* enhancement addresses the target of that forward entry's change.
C31_UndoIsUndoable ==
    \A undo \in DOMAIN history, redo \in DOMAIN history, forward \in DOMAIN history :
        (/\ "isRollback" \in DOMAIN history[redo].rollbackData
         /\ history[redo].rollbackData.originalHistoryEntryId = undo
         /\ "isRollback" \in DOMAIN history[undo].rollbackData
         /\ history[undo].rollbackData.originalHistoryEntryId = forward
         /\ "target" \in DOMAIN history[forward].rollbackData
         /\ history[redo].enhancementId \in DOMAIN enhancements)
        => /\ history[redo].originalValue = history[forward].originalValue
           /\ history[redo].appliedValue = history[forward].appliedValue
           /\ enhancements[history[redo].enhancementId].changes[1].target
                 = history[forward].rollbackData.target

---------------------------------------------------------------------------
(* Claims about rejecting, and about what approving records *)

\* C32: rejectChanges(enhancementId, changeIds?, feedback?) on a stored enhancement, when
\* the store accepts the write, stores the enhancement with status rejected, the time of
\* the call and the feedback, returns every addressed id as successful and none as failed;
\* and no rejectChanges call, whatever its outcome, adds a history entry.
C32_RejectMarksAndReportsAll ==
    [][\A e \in KnownEnhancementIds, feedback \in Feedbacks, f \in EnhFaults :
          \A changeIds \in ChangeIdLists(e) :
              RejectChanges(e, changeIds, feedback, f)
              => /\ history' = history
                 /\ (f = "none" /\ e \in DOMAIN enhancements)
                       => /\ lastCall'.outcome = "returned"
                          /\ enhancements'[e].status = "rejected"
                          /\ enhancements'[e].rejectedAt = Date(now)
                          /\ "userFeedback" \in DOMAIN enhancements'[e]
                          /\ enhancements'[e].userFeedback = feedback
                          /\ lastCall'.successful
                                = ChangesAddressed(enhancements[e], changeIds)
                          /\ lastCall'.failed = <<>>]_vars

\* C32 witness: on day 30 or later, rejectChanges with feedback has returned two addressed
\* ids as successful for an enhancement that has a history entry from an earlier approval;
\* the enhancement is rejected with that day and that feedback.
C32_Witness ==
    /\ lastCall.op = "rejectChanges"
    /\ lastCall.outcome = "returned"
    /\ now >= ThirtyDays
    /\ Len(lastCall.successful) = 2
    /\ lastCall.failed = <<>>
    /\ enhancements[lastCall.target].status = "rejected"
    /\ enhancements[lastCall.target].rejectedAt = Date(now)
    /\ enhancements[lastCall.target].userFeedback = "too early"
    /\ Cardinality(DOMAIN history) = 1

\* C33: when approveChanges returns, every id of its successful list has a history entry
\* with that changeId, for the enhancement of the call, that the call stored: as many new
\* entries as successful ids; a call that raises reports no id as successful.
C33_SuccessfulMeansStored ==
    [][lastCall'.op = "approveChanges"
       => /\ lastCall'.outcome = "returned"
             => /\ Cardinality(NewEntries) = Len(lastCall'.successful)
                /\ \A id \in Range(lastCall'.successful) :
                      \E h \in NewEntries :
                          /\ history'[h].changeId = id
                          /\ history'[h].enhancementId = lastCall'.target
          /\ lastCall'.outcome = "raised" => lastCall'.successful = <<>>]_vars

\* C33 witness: approveChanges has returned two ids as successful and the history holds an
\* entry for each of the two.
C33_Witness ==
    /\ lastCall.op = "approveChanges"
    /\ lastCall.outcome = "returned"
    /\ Len(lastCall.successful) = 2
    /\ lastCall.successful[1] # lastCall.successful[2]
    /\ \A i \in 1..2 : \E h \in DOMAIN history :
          /\ history[h].changeId = lastCall.successful[i]
          /\ history[h].enhancementId = lastCall.target

\* C34: the history never holds two forward (non-rollback) entries for the same change of
\* the same enhancement.
C34_OneForwardEntryPerChange ==
    \A h1 \in DOMAIN history, h2 \in DOMAIN history :
        (/\ "isRollback" \notin DOMAIN history[h1].rollbackData
         /\ "isRollback" \notin DOMAIN history[h2].rollbackData
         /\ history[h1].enhancementId = history[h2].enhancementId
         /\ extractChangeIndex(history[h1].changeId)
               = extractChangeIndex(history[h2].changeId))
        => h1 = h2

\* C35: every history entry an approveChanges call stores has a changeId that is
\* `${enhancementId}-change-${i}` for the enhancement of the call and an index i of one of
\* its changes; every other addressed id is in the failed list of the call that returns.
C35_EntriesNameOwnChanges ==
    [][lastCall'.op = "approveChanges"
       => /\ \A h \in NewEntries :
                history'[h].changeId \in OwnChangeIds(enhancements[lastCall'.target])
          /\ lastCall'.outcome = "returned"
                => \A id \in Range(lastCall'.addressed) :
                      id \notin OwnChangeIds(enhancements[lastCall'.target])
                         => /\ id \in FailedIds(lastCall'.failed)
                            /\ id \notin Range(lastCall'.successful)]_vars

\* C38: an enhancement that an approveChanges call turns to status approved has, when the
\* call settles, at least one history entry that names it.
C38_ApprovedMeansRecorded ==
    [][(/\ lastCall'.op = "approveChanges"
        /\ lastCall'.target \in DOMAIN enhancements
        /\ enhancements[lastCall'.target].status # "approved"
        /\ enhancements'[lastCall'.target].status = "approved")
       => \E h \in DOMAIN history' : history'[h].enhancementId = lastCall'.target]_vars

\* C39: every stored history entry names an enhancement that is in the enhancement store
\* and is an enhancement of the entry's plan.
C39_HistoryNamesStoredEnhancement ==
    \A h \in DOMAIN history :
        /\ history[h].enhancementId \in DOMAIN enhancements
        /\ enhancements[history[h].enhancementId].planId = history[h].planId

---------------------------------------------------------------------------
(* Claims about rejected and overlapping writes of the Plan Mutation Service *)

\* C36: a write call of the Plan Mutation Service (create, update, delete, an item
\* operation) that rejects leaves the plans store with the documents it had before the
\* call.
C36_RejectedWriteWritesNothing ==
    [][(/\ Idle
        /\ lastCall'.op \in PlanWriteOps
        /\ lastCall'.outcome = "raised")
       => plans' = plans]_vars

\* C37: after a deletePlan(id) that was issued while other mutations of the plan were in
\* flight has returned, the plans store holds no document with that id, whatever the
\* other mutations do afterwards.
C37_DeletedStaysDeleted ==
    \A c \in Tasks :
        (/\ inflight.tasks[c].phase = "returned"
         /\ inflight.tasks[c].call.op = "deletePlan")
        => inflight.tasks[c].call.planId \notin DOMAIN plans

====
